---- MODULE Spec2Model ----
(***************************************************************************)
(* Weak-signal metrics pipeline: text normalisation, n-gram matching, the  *)
(* TF / DF tables, the time-weighted DoV / DoD scores, and the per-period  *)
(* signal maps with their quadrant categories.                             *)
(*                                                                         *)
(* Numbers.  Counts are integers.  A score (DoV, DoD) is an exact          *)
(* rational [num, den] with den > 0.  The decay parameter w is held in     *)
(* thousandths (0.025 is 25).  In the signal-map part, scores are integers *)
(* in units of 5e-11, so that the program's epsilon 1e-10 is 2, and the    *)
(* x axis is in quarters (a mean of 1.5 is 6).                             *)
(*                                                                         *)
(* Text.  A string is a sequence of one-character strings.                 *)
(***************************************************************************)
EXTENDS Integers, Sequences, FiniteSets, TLC

VARIABLES
    \* one call of _categorize_signal
    row, median_x, median_y, category,
    \* one call of another function: the function with its arguments, and
    \* what it returned
    call, returned,
    \* the input files (those that exist, and what they hold) and the
    \* configuration
    input_files, df_papers, keywords_set, optimal_w,
    \* the running stage and its local variables
    stage, queue, years, doc_counts, tf_df, df_df, dov_df, dod_df,
    \* the output files
    tf_csv, df_csv, dov_csv, dod_csv,
    \* one call of generate_signal_map_data
    df_x, df_y, periods, period_queue, all_period_data, period_short_names,
    \* the files of the two map families
    kem_data_csv, kim_data_csv, kem_evolution_csv, kim_evolution_csv,
    \* the validation stage: its locals and its two reports
    df_merged, val_queue, all_validated_csv, high_impact_csv,
    \* the error messages logged so far
    log

catVars == <<row, median_x, median_y, category, call, returned>>
inputVars == <<input_files, df_papers, keywords_set, optimal_w>>
stageVars == <<stage, queue, years, doc_counts, tf_df, df_df, dov_df, dod_df>>
fileVars == <<tf_csv, df_csv, dov_csv, dod_csv>>
mapVars == <<df_x, df_y, periods, period_queue, all_period_data, period_short_names>>
reportVars == <<kem_data_csv, kim_data_csv, kem_evolution_csv, kim_evolution_csv,
                df_merged, val_queue, all_validated_csv, high_impact_csv, log>>
reportFiles == <<kem_data_csv, kim_data_csv, kem_evolution_csv, kim_evolution_csv,
                 df_merged, val_queue, all_validated_csv, high_impact_csv>>
vars == <<catVars, inputVars, stageVars, fileVars, mapVars, reportVars>>

\* A variable that holds nothing yet: no file, no table, no result.
None == [none |-> TRUE]

Range(s) == {s[i] : i \in DOMAIN s}

(***************************************************************************)
(* Bounds of the model.                                                    *)
(***************************************************************************)
\* axis values and medians handed to _categorize_signal range over 0..MaxVal
MaxVal == 3
\* a drawn corpus holds at most MaxDocs documents
MaxDocs == 2
\* a drawn frequency table has at most MaxYears year columns
MaxYears == 3
\* the cells of a drawn frequency table range over 0..MaxCount
MaxCount == 1
\* the document count of a year of a drawn series ranges over 0..MaxYearDocs
MaxYearDocs == 1
\* the cells of a drawn x-axis table of a signal map range over 0..MaxX
MaxX == 1
\* the longest document of the single-function runs, in tokens
MaxTokens == 3
\* the most year columns of a score table of the single-function runs
MaxColumns == 13

(***************************************************************************)
(* Characters and strings.                                                 *)
(***************************************************************************)
Digits == <<"0", "1", "2", "3", "4", "5", "6", "7", "8", "9">>
UpperLetters == <<"A", "B", "C", "D", "E", "F", "G", "H", "I", "J", "K", "L", "M",
                  "N", "O", "P", "Q", "R", "S", "T", "U", "V", "W", "X", "Y", "Z">>
LowerLetters == <<"a", "b", "c", "d", "e", "f", "g", "h", "i", "j", "k", "l", "m",
                  "n", "o", "p", "q", "r", "s", "t", "u", "v", "w", "x", "y", "z">>
\* the characters of the model in code-point order
CodePoints == <<" ", ",", "-", ".">> \o Digits \o UpperLetters \o LowerLetters
Whitespace == {" "}

Ord(c) == CHOOSE i \in DOMAIN CodePoints : CodePoints[i] = c

\* str.lower() on one character
Lower(c) ==
    IF c \in Range(UpperLetters)
    THEN LowerLetters[CHOOSE i \in DOMAIN UpperLetters : UpperLetters[i] = c]
    ELSE c

\* Python's < on strings: lexicographic by code point, a proper prefix first
RECURSIVE StrLess(_, _)
StrLess(a, b) ==
    IF b = <<>> THEN FALSE
    ELSE IF a = <<>> THEN TRUE
    ELSE IF Head(a) = Head(b) THEN StrLess(Tail(a), Tail(b))
    ELSE Ord(Head(a)) < Ord(Head(b))

\* list.insert at the place sorted() gives x among the sorted list s
RECURSIVE Insert(_, _)
Insert(x, s) ==
    IF s = <<>> THEN <<x>>
    ELSE IF StrLess(x, Head(s)) THEN <<x>> \o s
    ELSE <<Head(s)>> \o Insert(x, Tail(s))

\* sorted(seq) for a sequence of strings
RECURSIVE Sorted(_)
Sorted(s) == IF s = <<>> THEN <<>> ELSE Insert(Head(s), Sorted(Tail(s)))

\* sorted(list(set)) for a set of strings
RECURSIVE SortedSet(_)
SortedSet(S) ==
    IF S = {} THEN <<>>
    ELSE LET x == CHOOSE y \in S : TRUE IN Insert(x, SortedSet(S \ {x}))

\* ' '.join(words)
RECURSIVE Join(_)
Join(words) ==
    IF words = <<>> THEN <<>>
    ELSE IF Len(words) = 1 THEN words[1]
    ELSE words[1] \o <<" ">> \o Join(Tail(words))

\* str.split(): the maximal runs of non-whitespace characters
RECURSIVE SplitFrom(_, _, _)
SplitFrom(text, cur, acc) ==
    IF text = <<>> THEN (IF cur = <<>> THEN acc ELSE Append(acc, cur))
    ELSE IF Head(text) \in Whitespace
         THEN SplitFrom(Tail(text), <<>>, IF cur = <<>> THEN acc ELSE Append(acc, cur))
         ELSE SplitFrom(Tail(text), Append(cur, Head(text)), acc)

Split(text) == SplitFrom(text, <<>>, <<>>)

\* str.strip() leaves nothing: the text is empty or all whitespace
IsBlank(text) == \A i \in DOMAIN text : text[i] \in Whitespace

(***************************************************************************)
(* _categorize_signal (analysis/signal_maps.py).                           *)
(***************************************************************************)
Strong == "Strong Signal"
Weak == "Weak Signal"
Latent == "Latent Signal"
WellKnown == "Well-known but not strong"
Categories == {Strong, Weak, Latent, WellKnown}

\* a mutant of _categorize_signal: strict comparison against the medians
categorize_strict(r, mx, my) ==
    LET is_above_median_x == r.axis_x > mx
        is_above_median_y == r.axis_y > my
    IN  IF is_above_median_x /\ is_above_median_y THEN Strong
        ELSE IF ~is_above_median_x /\ is_above_median_y THEN Weak
        ELSE IF ~is_above_median_x /\ ~is_above_median_y THEN Latent
        ELSE WellKnown

\* a mutant of _categorize_signal: the two low-x labels exchanged
categorize_swapped(r, mx, my) ==
    LET is_above_median_x == r.axis_x >= mx
        is_above_median_y == r.axis_y >= my
    IN  IF is_above_median_x /\ is_above_median_y THEN Strong
        ELSE IF ~is_above_median_x /\ is_above_median_y THEN Latent
        ELSE IF ~is_above_median_x /\ ~is_above_median_y THEN Weak
        ELSE WellKnown

_categorize_signal(r, mx, my) ==
    LET is_above_median_x == r.axis_x >= mx
        is_above_median_y == r.axis_y >= my
    IN  IF is_above_median_x /\ is_above_median_y THEN Strong
        ELSE IF ~is_above_median_x /\ is_above_median_y THEN Weak
        ELSE IF ~is_above_median_x /\ ~is_above_median_y THEN Latent
        ELSE WellKnown

(***************************************************************************)
(* Data frames.  A frame has its row labels and its column labels in order *)
(* and one cell per (row, column).                                         *)
(***************************************************************************)
Frame(index, columns, value) ==
    [index |-> index, columns |-> columns,
     data |-> [k \in Range(index) |-> [y \in Range(columns) |-> value]]]

\* df[year] = col : the column of one label replaced
SetColumn(df, year, col) ==
    [df EXCEPT !.data = [k \in DOMAIN @ |-> [@[k] EXCEPT ![year] = col[k]]]]

\* sorted(set of integers)
RECURSIVE SortedInts(_)
SortedInts(S) ==
    IF S = {} THEN <<>>
    ELSE LET m == CHOOSE x \in S : \A y \in S : x <= y
         IN  <<m>> \o SortedInts(S \ {m})

(***************************************************************************)
(* The text normaliser (processing/metrics.py, _standardize_text).         *)
(***************************************************************************)
\* a missing value of the corpus table
NA == <<"NaN">>

\* Series.fillna('')
fillna(v) == IF v = NA THEN <<>> ELSE v

\* df_papers['title'].fillna('') + " " + df_papers['summary'].fillna('')
full_text(doc) == fillna(doc.title) \o <<" ">> \o fillna(doc.summary)

\* the characters re.sub(r'[^a-z0-9\s]', '', ...) keeps
IsKeptChar(c) == c \in Range(LowerLetters) \cup Range(Digits) \cup Whitespace

cleaned_text(text) == SelectSeq([i \in DOMAIN text |-> Lower(text[i])], IsKeptChar)

\* WordNetLemmatizer.lemmatize (default part of speech: noun) on the words
\* of the model: a plural noun of the dictionary goes to its singular, any
\* other word is returned as it is.
WordNetNouns ==
    (<<"n", "e", "t", "w", "o", "r", "k", "s">> :> <<"n", "e", "t", "w", "o", "r", "k">>)

lemmatize(word) == IF word \in DOMAIN WordNetNouns THEN WordNetNouns[word] ELSE word

_standardize_text(text) ==
    IF text = NA \/ IsBlank(text) THEN <<>>
    ELSE LET tokens == Split(cleaned_text(text))
         IN  [i \in DOMAIN tokens |-> lemmatize(tokens[i])]

(***************************************************************************)
(* The n-gram matcher and the two frequency counters                       *)
(* (processing/metrics.py).                                                *)
(***************************************************************************)
\* nltk.util.ngrams: every contiguous window of n tokens, in order
ngrams(tokens, n) ==
    [i \in 1..(Len(tokens) - n + 1) |-> SubSeq(tokens, i, i + n - 1)]

\* a mutant of standardized_ngram: the window joined in document order
standardized_ngram_unsorted(ngram_tuple) == Join(ngram_tuple)

\* a mutant of standardized_ngram: sorted(ngram_tuple, reverse=True)
standardized_ngram_descending(ngram_tuple) ==
    LET up == Sorted(ngram_tuple)
    IN  Join([i \in DOMAIN up |-> up[Len(up) + 1 - i]])

\* ' '.join(sorted(ngram_tuple))
standardized_ngram(ngram_tuple) == Join(Sorted(ngram_tuple))

\* sorted(list({len(k.split()) for k in keyword_list}))
keyword_lengths(kws) == SortedInts({Len(Split(k)) : k \in kws})

\* a mutant of TfHit: the count is assigned, not incremented
TfHitAssign(tf, k, year) == [tf EXCEPT !.data[k][year] = 1]

\* tf_df.loc[standardized_ngram, year] += 1
TfHit(tf, k, year) == [tf EXCEPT !.data[k][year] = @ + 1]

\* for ngram_tuple in ngrams(lemmatized_tokens, n): ...
RECURSIVE TfWindows(_, _, _, _, _)
TfWindows(tf, grams, i, year, kws) ==
    IF i > Len(grams) THEN tf
    ELSE LET g == standardized_ngram(grams[i])
         IN  TfWindows(IF g \in kws THEN TfHit(tf, g, year) ELSE tf,
                       grams, i + 1, year, kws)

\* for n in keyword_lengths: if len(lemmatized_tokens) >= n: ...
RECURSIVE TfLengths(_, _, _, _, _)
TfLengths(tf, tokens, lens, year, kws) ==
    IF lens = <<>> THEN tf
    ELSE LET n == Head(lens)
         IN  TfLengths(IF Len(tokens) >= n
                       THEN TfWindows(tf, ngrams(tokens, n), 1, year, kws)
                       ELSE tf,
                       tokens, Tail(lens), year, kws)

\* the body of calculate_term_frequencies' loop for one document
TfDocument(tf, text, year, kws) ==
    TfLengths(tf, _standardize_text(text), keyword_lengths(kws), year, kws)

RECURSIVE DfWindows(_, _, _, _)
DfWindows(found, grams, i, kws) ==
    IF i > Len(grams) THEN found
    ELSE LET g == standardized_ngram(grams[i])
         IN  DfWindows(IF g \in kws THEN found \cup {g} ELSE found, grams, i + 1, kws)

RECURSIVE DfLengths(_, _, _, _)
DfLengths(found, tokens, lens, kws) ==
    IF lens = <<>> THEN found
    ELSE LET n == Head(lens)
         IN  DfLengths(IF Len(tokens) >= n
                       THEN DfWindows(found, ngrams(tokens, n), 1, kws)
                       ELSE found,
                       tokens, Tail(lens), kws)

\* a mutant of found_in_this_paper: only the first keyword length is scanned
found_first_length(text, kws) ==
    DfLengths({}, _standardize_text(text), SubSeq(keyword_lengths(kws), 1, 1), kws)

\* found_in_this_paper after the scan of one document
found_in_this_paper(text, kws) ==
    DfLengths({}, _standardize_text(text), keyword_lengths(kws), kws)

\* for keyword in found_in_this_paper: df_df.loc[keyword, year] += 1
DfHits(df, found, year) ==
    [df EXCEPT !.data = [k \in DOMAIN @ |->
        IF k \in found THEN [@[k] EXCEPT ![year] = @ + 1] ELSE @[k]]]

\* the body of calculate_document_frequencies' loop for one document
DfDocument(df, text, year, kws) == DfHits(df, found_in_this_paper(text, kws), year)

\* sorted(df_papers['published'].unique())
unique_years(papers) == SortedInts({papers[i].published : i \in DOMAIN papers})

\* df_papers[df_papers['published'] == year], in the order of the corpus
RECURSIVE papers_of_year(_, _)
papers_of_year(papers, year) ==
    IF papers = <<>> THEN <<>>
    ELSE (IF Head(papers).published = year
          THEN <<[year |-> year, text |-> full_text(Head(papers))]>>
          ELSE <<>>) \o papers_of_year(Tail(papers), year)

\* the documents in the order the two nested loops visit them
RECURSIVE iteration_order(_, _)
iteration_order(papers, yrs) ==
    IF yrs = <<>> THEN <<>>
    ELSE papers_of_year(papers, Head(yrs)) \o iteration_order(papers, Tail(yrs))

\* df_papers['published'].value_counts().sort_index()
value_counts(papers) ==
    LET ys == unique_years(papers)
    IN  [index |-> ys,
         data |-> [y \in Range(ys) |->
                      Cardinality({i \in DOMAIN papers : papers[i].published = y})]]

(***************************************************************************)
(* The time-weighted score calculator (processing/metrics.py).             *)
(***************************************************************************)
Rat(n, d) == [num |-> n, den |-> d]

\* a mutant of time_weight: the weight grows with the age of the column
time_weight_inflating(w, N, j) == Rat(1000 + w * (N - j), 1000)

\* a mutant of time_weight: the column position counted from 0
time_weight_zero_based(w, N, j) == Rat(1000 - w * (N - (j - 1)), 1000)

\* a mutant of time_weight: a weight below zero is replaced by zero
time_weight_floored(w, N, j) ==
    IF 1000 - w * (N - j) < 0 THEN Rat(0, 1000) ELSE Rat(1000 - w * (N - j), 1000)

\* time_weight = (1 - w_value * (N - j)), w in thousandths
time_weight(w, N, j) == Rat(1000 - w * (N - j), 1000)

\* (TF_ij_series / Nj) * time_weight for one cell
weighted(count, Nj, tw) == Rat(count * tw.num, Nj * tw.den)

\* a mutant of DovColumns: no test for a year without documents
RECURSIVE DovColumnsUnguarded(_, _, _, _, _)
DovColumnsUnguarded(dov, tf, dc, w, j) ==
    IF j > Len(tf.columns) THEN dov
    ELSE LET year == tf.columns[j]
             N == Len(tf.columns)
             Nj == dc.data[year]
             col == [k \in Range(tf.index) |->
                        weighted(tf.data[k][year], Nj, time_weight(w, N, j))]
         IN  DovColumnsUnguarded(SetColumn(dov, year, col), tf, dc, w, j + 1)

\* for j, year in enumerate(tf_df.columns, 1): ...
RECURSIVE DovColumns(_, _, _, _, _)
DovColumns(dov, tf, dc, w, j) ==
    IF j > Len(tf.columns) THEN dov
    ELSE LET year == tf.columns[j]
             N == Len(tf.columns)
             Nj == dc.data[year]
             col == IF Nj = 0
                    THEN [k \in Range(tf.index) |-> Rat(0, 1)]
                    ELSE [k \in Range(tf.index) |->
                             weighted(tf.data[k][year], Nj, time_weight(w, N, j))]
         IN  DovColumns(SetColumn(dov, year, col), tf, dc, w, j + 1)

calculate_dov(tf, dc, w) == DovColumns(Frame(tf.index, tf.columns, NA), tf, dc, w, 1)

\* for j, year in enumerate(df_df.columns, 1): ...
RECURSIVE DodColumns(_, _, _, _, _)
DodColumns(dod, df, dc, w, j) ==
    IF j > Len(df.columns) THEN dod
    ELSE LET year == df.columns[j]
             N == Len(df.columns)
             Nj == dc.data[year]
             col == IF Nj = 0
                    THEN [k \in Range(df.index) |-> Rat(0, 1)]
                    ELSE [k \in Range(df.index) |->
                             weighted(df.data[k][year], Nj, time_weight(w, N, j))]
         IN  DodColumns(SetColumn(dod, year, col), df, dc, w, j + 1)

calculate_dod(df, dc, w) == DodColumns(Frame(df.index, df.columns, NA), df, dc, w, 1)

(***************************************************************************)
(* The stages (scripts/run_tf_calculation.py, run_df_dod_calculation.py,   *)
(* run_dov_calculation.py).  One stage runs at a time; a stage reads its   *)
(* inputs, works through the documents and writes its tables.  A table     *)
(* file holds the frame written to it: read_csv(index_col=0) gives back    *)
(* the labels and the cells, and the year labels are used through int().   *)
(***************************************************************************)
NoLocals ==
    /\ queue' = <<>>
    /\ years' = None
    /\ doc_counts' = None
    /\ tf_df' = None
    /\ df_df' = None
    /\ dov_df' = None
    /\ dod_df' = None

\* a mutant of written: only the rows with a non-zero sum are written
written_nonzero(df) ==
    LET kept == SelectSeq(df.index,
                    LAMBDA k : \E y \in Range(df.columns) : df.data[k][y] # 0)
    IN  [index |-> kept, columns |-> df.columns,
         data |-> [k \in Range(kept) |-> df.data[k]]]

\* DataFrame.to_csv: the content of the file written
written(df) == df

\* open(keywords_path) and pd.read_parquet(papers_path) raise no
\* FileNotFoundError
corpus_and_vocabulary_found == {"keywords", "papers"} \subseteq input_files

\* pd.read_csv(tf_path) and pd.read_parquet(papers_path) raise no
\* FileNotFoundError
tf_and_corpus_found == tf_csv # None /\ "papers" \in input_files

\* logging.error of a stage: the stage and the kind of the error
logged(name, error) == log \cup {[stage |-> name, error |-> error]}

\* run_tf_calculation.main, up to the call of calculate_term_frequencies
\* and the set-up of its table
TfStart ==
    /\ stage = "idle"
    /\ corpus_and_vocabulary_found
    /\ stage' = "tf"
    /\ years' = unique_years(df_papers)
    /\ tf_df' = Frame(SortedSet(keywords_set), years', 0)
    /\ queue' = iteration_order(df_papers, years')
    /\ UNCHANGED <<doc_counts, df_df, dov_df, dod_df>>
    /\ UNCHANGED <<catVars, inputVars, fileVars, mapVars, reportVars>>

\* one document of calculate_term_frequencies
TfDoc ==
    /\ stage = "tf"
    /\ queue # <<>>
    /\ tf_df' = TfDocument(tf_df, Head(queue).text, Head(queue).year, keywords_set)
    /\ queue' = Tail(queue)
    /\ UNCHANGED <<stage, years, doc_counts, df_df, dov_df, dod_df>>
    /\ UNCHANGED <<catVars, inputVars, fileVars, mapVars, reportVars>>

\* term_frequencies_df.to_csv(output_path)
TfSave ==
    /\ stage = "tf"
    /\ queue = <<>>
    /\ tf_csv' = written(tf_df)
    /\ stage' = "idle"
    /\ NoLocals
    /\ UNCHANGED <<df_csv, dov_csv, dod_csv>>
    /\ UNCHANGED <<catVars, inputVars, mapVars, reportVars>>

\* run_df_dod_calculation.main, up to the call of
\* calculate_document_frequencies and the set-up of its table
DfStart ==
    /\ stage = "idle"
    /\ corpus_and_vocabulary_found
    /\ stage' = "df"
    /\ years' = unique_years(df_papers)
    /\ doc_counts' = value_counts(df_papers)
    /\ df_df' = Frame(SortedSet(keywords_set), years', 0)
    /\ queue' = iteration_order(df_papers, years')
    /\ UNCHANGED <<tf_df, dov_df, dod_df>>
    /\ UNCHANGED <<catVars, inputVars, fileVars, mapVars, reportVars>>

\* one document of calculate_document_frequencies
DfDoc ==
    /\ stage = "df"
    /\ queue # <<>>
    /\ df_df' = DfDocument(df_df, Head(queue).text, Head(queue).year, keywords_set)
    /\ queue' = Tail(queue)
    /\ UNCHANGED <<stage, years, doc_counts, tf_df, dov_df, dod_df>>
    /\ UNCHANGED <<catVars, inputVars, fileVars, mapVars, reportVars>>

\* df_df.to_csv(df_output_path), then calculate_dod
DfSave ==
    /\ stage = "df"
    /\ queue = <<>>
    /\ df_csv' = written(df_df)
    /\ dod_df' = calculate_dod(df_df, doc_counts, optimal_w)
    /\ stage' = "dod"
    /\ UNCHANGED <<queue, years, doc_counts, tf_df, df_df, dov_df>>
    /\ UNCHANGED <<tf_csv, dov_csv, dod_csv>>
    /\ UNCHANGED <<catVars, inputVars, mapVars, reportVars>>

\* dod_df.to_csv(dod_output_path)
DodSave ==
    /\ stage = "dod"
    /\ dod_csv' = written(dod_df)
    /\ stage' = "idle"
    /\ NoLocals
    /\ UNCHANGED <<tf_csv, df_csv, dov_csv>>
    /\ UNCHANGED <<catVars, inputVars, mapVars, reportVars>>

\* all(df_tf.columns.astype(int) == doc_counts_per_year.index)
years_align(tf, dc) == tf.columns = dc.index

\* run_dov_calculation.main, up to the call of calculate_dov
DovStart ==
    /\ stage = "idle"
    /\ tf_and_corpus_found
    /\ years_align(tf_csv, value_counts(df_papers))
    /\ stage' = "dov"
    /\ tf_df' = tf_csv
    /\ doc_counts' = value_counts(df_papers)
    /\ dov_df' = calculate_dov(tf_df', doc_counts', optimal_w)
    /\ UNCHANGED <<queue, years, df_df, dod_df>>
    /\ UNCHANGED <<catVars, inputVars, fileVars, mapVars, reportVars>>

\* run_dov_calculation.main when the years do not align: "Mismatch between
\* years in TF file and paper data. Aborting." and return; with different
\* numbers of years the comparison itself raises ValueError, which nothing
\* catches
DovMismatch ==
    /\ stage = "idle"
    /\ tf_and_corpus_found
    /\ ~years_align(tf_csv, value_counts(df_papers))
    /\ log' = logged("dov", IF Len(tf_csv.columns) = Len(value_counts(df_papers).index)
                            THEN "Mismatch" ELSE "ValueError")
    /\ UNCHANGED <<catVars, inputVars, stageVars, fileVars, mapVars, reportFiles>>

\* dov_df.to_csv(output_path)
DovSave ==
    /\ stage = "dov"
    /\ dov_csv' = written(dov_df)
    /\ stage' = "idle"
    /\ NoLocals
    /\ UNCHANGED <<tf_csv, df_csv, dod_csv>>
    /\ UNCHANGED <<catVars, inputVars, mapVars, reportVars>>

\* run_tf_calculation.main when the vocabulary or the corpus is not found:
\* "Input file not found ... Aborting." and return
TfAbort ==
    /\ stage = "idle"
    /\ ~corpus_and_vocabulary_found
    /\ log' = logged("tf", "FileNotFoundError")
    /\ UNCHANGED <<catVars, inputVars, stageVars, fileVars, mapVars, reportFiles>>

\* run_df_dod_calculation.main when the vocabulary or the corpus is not
\* found
DfAbort ==
    /\ stage = "idle"
    /\ ~corpus_and_vocabulary_found
    /\ log' = logged("df", "FileNotFoundError")
    /\ UNCHANGED <<catVars, inputVars, stageVars, fileVars, mapVars, reportFiles>>

\* a mutant of DovAbort: the output file is opened before the inputs are
\* loaded
DovAbortAfterOpen ==
    /\ stage = "idle"
    /\ ~tf_and_corpus_found
    /\ log' = logged("dov", "FileNotFoundError")
    /\ dov_csv' = [index |-> <<>>, columns |-> <<>>, data |-> <<>>]
    /\ UNCHANGED <<tf_csv, df_csv, dod_csv>>
    /\ UNCHANGED <<catVars, inputVars, stageVars, mapVars, reportFiles>>

\* run_dov_calculation.main when the TF table or the corpus is not found
DovAbort ==
    /\ stage = "idle"
    /\ ~tf_and_corpus_found
    /\ log' = logged("dov", "FileNotFoundError")
    /\ UNCHANGED <<catVars, inputVars, stageVars, fileVars, mapVars, reportFiles>>

(***************************************************************************)
(* The inputs of the model.                                                *)
(***************************************************************************)
kw_a == <<"a">>
kw_a_b == <<"a", " ", "b">>
kw_network_neural == <<"n", "e", "t", "w", "o", "r", "k", " ", "n", "e", "u", "r", "a", "l">>
KeywordPool == {kw_a, kw_a_b, kw_network_neural}

\* "b a a b": two windows that standardize to "a b", two tokens "a"
text_repeat == [title |-> <<"b", " ", "a">>, summary |-> <<"a", " ", "b">>]
\* no title and no abstract
text_missing == [title |-> NA, summary |-> NA]
\* "Neural Networks, a b.": upper case, punctuation, a plural
text_mixed == [title |-> <<"N", "e", "u", "r", "a", "l", " ",
                           "N", "e", "t", "w", "o", "r", "k", "s", ",">>,
               summary |-> <<"a", " ", "b", ".">>]
\* "the neural network is fast"
text_example == [title |-> NA,
                 summary |-> <<"t", "h", "e", " ", "n", "e", "u", "r", "a", "l", " ",
                               "n", "e", "t", "w", "o", "r", "k", " ", "i", "s", " ",
                               "f", "a", "s", "t">>]
TextPool == {text_repeat, text_missing, text_mixed}
YearPool == {2010, 2012}

Paper(y, t) == [published |-> y, title |-> t.title, summary |-> t.summary]
PaperPool == {Paper(y, t) : y \in YearPool, t \in TextPool}

\* two documents in 2010 and two in 2011, one of each year with the sentence
ExampleCorpus ==
    <<Paper(2010, text_example), Paper(2010, text_missing),
      Paper(2011, text_repeat), Paper(2011, text_example)>>

Corpora == UNION {[1..n -> PaperPool] : n \in 0..MaxDocs} \cup {ExampleCorpus}

NoCategory == "(not called)"

IdleCat ==
    /\ row = None
    /\ median_x = None
    /\ median_y = None
    /\ category = NoCategory
    /\ call = None
    /\ returned = None

IdleInputs ==
    /\ input_files = {}
    /\ df_papers = None
    /\ keywords_set = None

IdleStage ==
    /\ stage = "idle"
    /\ queue = <<>>
    /\ years = None
    /\ doc_counts = None
    /\ tf_df = None
    /\ df_df = None
    /\ dov_df = None
    /\ dod_df = None

IdleFiles ==
    /\ tf_csv = None
    /\ df_csv = None
    /\ dov_csv = None
    /\ dod_csv = None

IdleMap ==
    /\ df_x = None
    /\ df_y = None
    /\ periods = None
    /\ period_queue = <<>>
    /\ all_period_data = None
    /\ period_short_names = None

IdleReports ==
    /\ kem_data_csv = None
    /\ kim_data_csv = None
    /\ kem_evolution_csv = None
    /\ kim_evolution_csv = None
    /\ df_merged = None
    /\ val_queue = <<>>
    /\ all_validated_csv = None
    /\ high_impact_csv = None
    /\ log = {}

(***************************************************************************)
(* Spec: the frequency and score stages on a drawn corpus, vocabulary and  *)
(* configured w.                                                           *)
(***************************************************************************)
Init ==
    /\ input_files = {"keywords", "papers"}
    /\ df_papers \in Corpora
    /\ keywords_set \in SUBSET KeywordPool
    /\ optimal_w \in {0, 25}
    /\ IdleStage
    /\ IdleFiles
    /\ IdleReports
    /\ IdleCat
    /\ IdleMap

Next ==
    \/ TfStart
    \/ TfDoc
    \/ TfSave
    \/ DfStart
    \/ DfDoc
    \/ DfSave
    \/ DodSave
    \/ DovStart
    \/ DovSave

Spec == Init /\ [][Next]_vars

(***************************************************************************)
(* SpecCat: _categorize_signal applied to a drawn row and drawn medians.   *)
(***************************************************************************)
InitCat ==
    /\ row \in [axis_x : 0..MaxVal, axis_y : 0..MaxVal]
    /\ median_x \in 0..MaxVal
    /\ median_y \in 0..MaxVal
    /\ category = NoCategory
    /\ call = None
    /\ returned = None
    /\ IdleInputs
    /\ optimal_w = None
    /\ IdleStage
    /\ IdleFiles
    /\ IdleReports
    /\ IdleMap

Categorize ==
    /\ category = NoCategory
    /\ category' = _categorize_signal(row, median_x, median_y)
    /\ UNCHANGED <<row, median_x, median_y, call, returned>>
    /\ UNCHANGED <<inputVars, stageVars, fileVars, mapVars, reportVars>>

NextCat == Categorize

SpecCat == InitCat /\ [][NextCat]_vars

\* C1: the call returns one of the four labels, and which one is fixed by
\* the pair (x >= median_x, y >= median_y): (true, true) Strong Signal,
\* (false, true) Weak Signal, (false, false) Latent Signal, (true, false)
\* Well-known but not strong.
C1_FourLabels ==
    category # NoCategory =>
        /\ category \in Categories
        /\ (category = Strong) <=> (row.axis_x >= median_x /\ row.axis_y >= median_y)
        /\ (category = Weak) <=> (row.axis_x < median_x /\ row.axis_y >= median_y)
        /\ (category = Latent) <=> (row.axis_x < median_x /\ row.axis_y < median_y)
        /\ (category = WellKnown) <=> (row.axis_x >= median_x /\ row.axis_y < median_y)

C1_Witness ==
    /\ category = Weak
    /\ row.axis_x < median_x
    /\ row.axis_y > median_y

\* C2: a value equal to its median counts as above it: at (median_x,
\* median_y) the label is Strong Signal, at x = median_x below median_y it
\* is Well-known but not strong, at y = median_y below median_x it is Weak
\* Signal.
C2_TieIsAbove ==
    category # NoCategory =>
        /\ (row.axis_x = median_x /\ row.axis_y = median_y) => category = Strong
        /\ (row.axis_x = median_x /\ row.axis_y < median_y) => category = WellKnown
        /\ (row.axis_x < median_x /\ row.axis_y = median_y) => category = Weak

C2_Witness ==
    /\ category = Strong
    /\ row.axis_x = median_x
    /\ row.axis_y = median_y

(***************************************************************************)
(* Claims about the frequency tables (checked under Spec).                 *)
(***************************************************************************)
YearsOf(papers) == {papers[i].published : i \in DOMAIN papers}

Cell(df, k, y) == df.data[k][y]

\* the positions of the windows of a text that standardize to keyword k
MatchingWindows(text, k) ==
    LET tokens == _standardize_text(text)
        n == Len(Split(k))
    IN  {i \in 1..(Len(tokens) - n + 1) :
            standardized_ngram(SubSeq(tokens, i, i + n - 1)) = k}

\* the documents (positions in the corpus) of year y
DocsOfYear(y) == {i \in DOMAIN df_papers : df_papers[i].published = y}

\* C3: in the TF and DF tables built from the same corpus and vocabulary,
\* 0 <= DF[k, y] <= TF[k, y] for every keyword k and year y.
C3_DfAtMostTf ==
    (tf_csv # None /\ df_csv # None) =>
        \A k \in keywords_set : \A y \in YearsOf(df_papers) :
            /\ 0 <= Cell(df_csv, k, y)
            /\ Cell(df_csv, k, y) <= Cell(tf_csv, k, y)

C3_Witness ==
    /\ tf_csv # None
    /\ df_csv # None
    /\ \E k \in keywords_set : \E y \in YearsOf(df_papers) :
          /\ Cell(df_csv, k, y) = 2
          /\ Cell(tf_csv, k, y) = 3

HasFullShape(df) ==
    /\ Range(df.index) = keywords_set
    /\ Len(df.index) = Cardinality(keywords_set)
    /\ Range(df.columns) = YearsOf(df_papers)
    /\ Len(df.columns) = Cardinality(YearsOf(df_papers))
    /\ DOMAIN df.data = keywords_set
    /\ \A k \in keywords_set : DOMAIN df.data[k] = YearsOf(df_papers)

NeverMatches(k) ==
    \A i \in DOMAIN df_papers : MatchingWindows(full_text(df_papers[i]), k) = {}

C5_PerDocument ==
    [][ /\ TfDoc =>
            \A k \in keywords_set : \A y \in Range(years) :
                Cell(tf_df', k, y) = Cell(tf_df, k, y) +
                    (IF y = Head(queue).year
                     THEN Cardinality(MatchingWindows(Head(queue).text, k))
                     ELSE 0)
        /\ DfDoc =>
            \A k \in keywords_set : \A y \in Range(years) :
                Cell(df_df', k, y) = Cell(df_df, k, y) +
                    (IF y = Head(queue).year
                        /\ MatchingWindows(Head(queue).text, k) # {}
                     THEN 1
                     ELSE 0) ]_vars

\* after the first document of a stage: a TF cell of 2 from its two
\* windows, or a DF cell of 1 from a document with two windows
C5_Witness ==
    /\ stage = "df"
    /\ Len(queue) + 1 = Len(df_papers)
    /\ Len(df_papers) >= 2
    /\ \E k \in keywords_set : \E y \in Range(years) :
          /\ Cell(df_df, k, y) = 1
          /\ \E i \in DocsOfYear(y) :
                Cardinality(MatchingWindows(full_text(df_papers[i]), k)) = 2

RatEq(a, b) == a.num * b.den = b.num * a.den

\* C6: on the example corpus (two documents in 2010, two in 2011, one of
\* each year with "the neural network is fast") and the vocabulary
\* {"network neural"}, TF and DF are 1 in both years and, with w = 0, DoV
\* is 1/2 in both years.
C6_Example ==
    (df_papers = ExampleCorpus /\ keywords_set = {kw_network_neural}) =>
        \A y \in {2010, 2011} :
            /\ tf_csv # None => Cell(tf_csv, kw_network_neural, y) = 1
            /\ df_csv # None => Cell(df_csv, kw_network_neural, y) = 1
            /\ (dov_csv # None /\ optimal_w = 0) =>
                  RatEq(Cell(dov_csv, kw_network_neural, y), Rat(1, 2))

C6_Witness ==
    /\ df_papers = ExampleCorpus
    /\ keywords_set = {kw_network_neural}
    /\ optimal_w = 0
    /\ tf_csv # None
    /\ df_csv # None
    /\ dov_csv # None

(***************************************************************************)
(* SpecScore: calculate_dov and calculate_dod applied to a drawn frequency *)
(* table, a drawn document-count series and a drawn w.  The years of the   *)
(* series are the columns of the table; a year's count may be 0.           *)
(***************************************************************************)
YearColumns(n) == [j \in 1..n |-> 2009 + j]

\* the row of k1 is drawn cell by cell, the row of k2 is constant
ScoreTables ==
    UNION {
        {[index |-> <<"k1", "k2">>, columns |-> YearColumns(n),
          data |-> ("k1" :> r1) @@ ("k2" :> [y \in Range(YearColumns(n)) |-> c2])] :
            r1 \in [Range(YearColumns(n)) -> 0..MaxCount], c2 \in {0, MaxCount}} :
        n \in 1..MaxYears}

\* w = 0 and the candidates 0.025, 0.05, 0.075, 0.1, in thousandths
WValues == {0, 25, 50, 75, 100}

InitScore ==
    /\ tf_df \in ScoreTables
    /\ df_df = tf_df
    /\ doc_counts \in {[index |-> tf_df.columns, data |-> d] :
                          d \in [Range(tf_df.columns) -> 0..MaxYearDocs]}
    /\ optimal_w \in WValues
    /\ dov_df = None
    /\ dod_df = None
    /\ stage = "idle"
    /\ queue = <<>>
    /\ years = None
    /\ IdleInputs
    /\ IdleFiles
    /\ IdleReports
    /\ IdleCat
    /\ IdleMap

CalcDov ==
    /\ dov_df = None
    /\ dov_df' = calculate_dov(tf_df, doc_counts, optimal_w)
    /\ UNCHANGED <<stage, queue, years, doc_counts, tf_df, df_df, dod_df>>
    /\ UNCHANGED <<catVars, inputVars, fileVars, mapVars, reportVars>>

CalcDod ==
    /\ dod_df = None
    /\ dod_df' = calculate_dod(df_df, doc_counts, optimal_w)
    /\ UNCHANGED <<stage, queue, years, doc_counts, tf_df, df_df, dov_df>>
    /\ UNCHANGED <<catVars, inputVars, fileVars, mapVars, reportVars>>

NextScore ==
    \/ CalcDov
    \/ CalcDod

SpecScore == InitScore /\ [][NextScore]_vars

RatLess(a, b) == a.num * b.den < b.num * a.den

\* (count / docs) * (1 - w * (N - j)), w in thousandths
ClosedForm(count, docs, w, N, j) == Rat(count * (1000 - w * (N - j)), docs * 1000)

\* score is the score table of source within its first n columns' formula
FollowsFormula(score, source) ==
    LET N == Len(source.columns)
    IN  /\ score.index = source.index
        /\ score.columns = source.columns
        /\ \A j \in 1..N : \A k \in Range(source.index) :
              LET year == source.columns[j]
                  count == source.data[k][year]
                  docs == doc_counts.data[year]
              IN  docs # 0 =>
                    /\ score.data[k][year].den # 0
                    /\ RatEq(score.data[k][year], ClosedForm(count, docs, optimal_w, N, j))
                    /\ j = N => RatEq(score.data[k][year], Rat(count, docs))
                    /\ optimal_w = 0 => RatEq(score.data[k][year], Rat(count, docs))

\* C7: for the column at 1-based position j of N with docs[year_j] # 0,
\* score[k, year_j] = (count[k, year_j] / docs[year_j]) * (1 - w * (N - j));
\* the most recent column and, with w = 0, every column has count / docs.
\* The score table has the rows and columns of the frequency table.
C7_ScoreFormula ==
    /\ dov_df # None => FollowsFormula(dov_df, tf_df)
    /\ dod_df # None => FollowsFormula(dod_df, df_df)

C7_Witness ==
    /\ dov_df # None
    /\ dod_df # None
    /\ optimal_w = 50
    /\ Len(tf_df.columns) = 3
    /\ \A y \in Range(tf_df.columns) :
          /\ doc_counts.data[y] = 1
          /\ tf_df.data["k1"][y] = 1
    /\ RatEq(dov_df.data["k1"][2010], Rat(9, 10))
    /\ RatEq(dod_df.data["k1"][2012], Rat(1, 1))

\* every cell of the columns of the years without documents is exactly 0,
\* and the other columns follow the formula of their own position
ZeroOnEmptyYears(score, source) ==
    /\ \A y \in Range(source.columns) : \A k \in Range(source.index) :
          doc_counts.data[y] = 0 => score.data[k][y] = Rat(0, 1)
    /\ FollowsFormula(score, source)

\* C8: if a year has zero documents the call returns a table (no error) in
\* which every keyword's score for that year is exactly 0, whatever the
\* raw count and w; the other columns are computed as usual.
C8_ZeroDocsYear ==
    /\ dov_df # None => ZeroOnEmptyYears(dov_df, tf_df)
    /\ dod_df # None => ZeroOnEmptyYears(dod_df, df_df)

C8_Witness ==
    /\ dov_df # None
    /\ dod_df # None
    /\ optimal_w = 100
    /\ Len(tf_df.columns) = 3
    /\ doc_counts.data[2010] = 1
    /\ doc_counts.data[2011] = 0
    /\ doc_counts.data[2012] = 1
    /\ \A y \in Range(tf_df.columns) : tf_df.data["k1"][y] = 1
    /\ dov_df.data["k1"][2011] = Rat(0, 1)
    /\ RatEq(dov_df.data["k1"][2010], Rat(8, 10))

\* the weight applied to a cell with a count and documents, read off the
\* score: score = (count / docs) * weight
WeightAbove1(score, source, k, year) ==
    RatLess(Rat(source.data[k][year], doc_counts.data[year]), score.data[k][year])

WeightBelow1(score, source, k, year) ==
    RatLess(score.data[k][year], Rat(source.data[k][year], doc_counts.data[year]))

WeightIs1(score, source, k, year) ==
    RatEq(score.data[k][year], Rat(source.data[k][year], doc_counts.data[year]))

\* the cells whose score shows the weight: a count and documents
Weighted(source, k, year) == source.data[k][year] > 0 /\ doc_counts.data[year] > 0

\* C9 as claimed: for w > 0 and N > 1 the weight of every older column
\* (j < N) exceeds 1.0 and the weight of the most recent column is 1.0.
C9_OlderWeightAbove1 ==
    (dov_df # None /\ optimal_w > 0 /\ Len(tf_df.columns) > 1) =>
        LET N == Len(tf_df.columns)
        IN  \A j \in 1..N : \A k \in Range(tf_df.index) :
                Weighted(tf_df, k, tf_df.columns[j]) =>
                    IF j < N THEN WeightAbove1(dov_df, tf_df, k, tf_df.columns[j])
                    ELSE WeightIs1(dov_df, tf_df, k, tf_df.columns[j])

\* C9 amended: for w > 0 and N > 1 the weight of every older column (j < N)
\* is below 1.0 and the weight of the most recent column is exactly 1.0.
C9_OlderWeightBelow1 ==
    /\ (dov_df # None /\ optimal_w > 0 /\ Len(tf_df.columns) > 1) =>
          LET N == Len(tf_df.columns)
          IN  \A j \in 1..N : \A k \in Range(tf_df.index) :
                  Weighted(tf_df, k, tf_df.columns[j]) =>
                      IF j < N THEN WeightBelow1(dov_df, tf_df, k, tf_df.columns[j])
                      ELSE WeightIs1(dov_df, tf_df, k, tf_df.columns[j])
    /\ (dod_df # None /\ optimal_w > 0 /\ Len(df_df.columns) > 1) =>
          LET N == Len(df_df.columns)
          IN  \A j \in 1..N : \A k \in Range(df_df.index) :
                  Weighted(df_df, k, df_df.columns[j]) =>
                      IF j < N THEN WeightBelow1(dod_df, df_df, k, df_df.columns[j])
                      ELSE WeightIs1(dod_df, df_df, k, df_df.columns[j])

C9_Witness ==
    /\ dov_df # None
    /\ dod_df # None
    /\ optimal_w = 25
    /\ Len(tf_df.columns) = 2
    /\ Weighted(tf_df, "k1", 2010)
    /\ Weighted(tf_df, "k1", 2011)
    /\ RatEq(dov_df.data["k1"][2010], Rat(975, 1000))
    /\ RatEq(dov_df.data["k1"][2011], Rat(1, 1))

(***************************************************************************)
(* The signal map builder (analysis/signal_maps.py,                        *)
(* generate_signal_map_data).  Scores are in units of 5e-11 and the x axis *)
(* is in quarters, so that every mean, geometric mean and median of the    *)
(* model is an integer.  A float is [nan, v]: not-a-number, or the value.  *)
(***************************************************************************)
\* 1e-10 in units of 5e-11
Epsilon == 2

Float(v) == [nan |-> FALSE, v |-> v]
NaN == [nan |-> TRUE, v |-> 0]

\* a > b on floats: false when a is not a number
Greater(a, b) == ~a.nan /\ a.v > b

RECURSIVE SumSeq(_)
SumSeq(s) == IF s = <<>> THEN 0 ELSE Head(s) + SumSeq(Tail(s))

RECURSIVE ProdSeq(_)
ProdSeq(s) == IF s = <<>> THEN 1 ELSE Head(s) * ProdSeq(Tail(s))

\* df[years] for one row: the cells of the period's years, in order
RowSlice(df, k, yrs) == [i \in DOMAIN yrs |-> df.data[k][yrs[i]]]

\* df_x_period.mean(axis=1) for one row, in quarters
mean(cells) == Float((4 * SumSeq(cells)) \div Len(cells))

\* scipy.stats.gmean for one row: exp(mean(log(a))); the logarithm of a
\* negative number is not a number, that of 0 is -inf and gives 0
gmean(a) ==
    IF \E i \in DOMAIN a : a[i] < 0 THEN NaN
    ELSE IF \E i \in DOMAIN a : a[i] = 0 THEN Float(0)
    ELSE LET p == ProdSeq(a)
         IN  Float(CHOOSE r \in 1..p : r ^ Len(a) = p)

\* gmean(df_y_period + 1e-10, axis=1) for one row
growth(cells) == gmean([i \in DOMAIN cells |-> cells[i] + Epsilon])

\* a mutant of has_presence: a row with axis_x = 0 is kept
has_presence_nonstrict(r) == ~r.axis_x.nan /\ r.axis_x.v >= 0 /\ Greater(r.axis_y, Epsilon)

\* (df_map['axis_x'] > 0) & (df_map['axis_y'] > 1e-10)
has_presence(r) == Greater(r.axis_x, 0) /\ Greater(r.axis_y, Epsilon)

\* sorted(values) for integers, with repetitions
RECURSIVE InsertInt(_, _)
InsertInt(x, s) ==
    IF s = <<>> THEN <<x>>
    ELSE IF x <= Head(s) THEN <<x>> \o s
    ELSE <<Head(s)>> \o InsertInt(x, Tail(s))

RECURSIVE SortInts(_)
SortInts(s) == IF s = <<>> THEN <<>> ELSE InsertInt(Head(s), SortInts(Tail(s)))

\* Series.median() of a non-empty series: the middle value, or the mean of
\* the two middle values
median(values) ==
    LET s == SortInts(values)
        n == Len(s)
    IN  IF n % 2 = 1 THEN s[(n + 1) \div 2]
        ELSE (s[n \div 2] + s[n \div 2 + 1]) \div 2

\* f"{period_key} ({year_range[0]}-{year_range[1]-1})"
period_name(p) == <<p.key, p.year_range[1], p.year_range[2] - 1>>

\* period_key.upper()
upper(key) ==
    IF key = "p1" THEN "P1" ELSE IF key = "p2" THEN "P2"
    ELSE IF key = "p3" THEN "P3" ELSE "P4"

\* list(range(year_range[0], year_range[1]))
year_list(p) == [i \in 1..(p.year_range[2] - p.year_range[1]) |-> p.year_range[1] + i - 1]

\* the body of the loop of generate_signal_map_data up to the filter: the
\* surviving rows with their two axes (plain numbers once filtered)
filtered_map(dfx, dfy, yrs) ==
    LET axes == [k \in Range(dfx.index) |->
                    [axis_x |-> mean(RowSlice(dfx, k, yrs)),
                     axis_y |-> growth(RowSlice(dfy, k, yrs))]]
        kept == SelectSeq(dfx.index, LAMBDA k : has_presence(axes[k]))
    IN  [index |-> kept,
         data |-> [k \in Range(kept) |->
                      [axis_x |-> axes[k].axis_x.v, axis_y |-> axes[k].axis_y.v]]]

\* a mutant of categorized: the medians are taken before the filter, with
\* a row without presence (both axes 0) among the values
categorized_unfiltered(m) ==
    LET mx == median(<<0>> \o [i \in DOMAIN m.index |-> m.data[m.index[i]].axis_x])
        my == median(<<0>> \o [i \in DOMAIN m.index |-> m.data[m.index[i]].axis_y])
    IN  [index |-> m.index,
         data |-> [k \in Range(m.index) |->
                      [axis_x |-> m.data[k].axis_x, axis_y |-> m.data[k].axis_y,
                       category |-> _categorize_signal(m.data[k], mx, my)]]]

\* the medians and the category column
categorized(m) ==
    LET mx == median([i \in DOMAIN m.index |-> m.data[m.index[i]].axis_x])
        my == median([i \in DOMAIN m.index |-> m.data[m.index[i]].axis_y])
    IN  [index |-> m.index,
         data |-> [k \in Range(m.index) |->
                      [axis_x |-> m.data[k].axis_x, axis_y |-> m.data[k].axis_y,
                       category |-> _categorize_signal(m.data[k], mx, my)]]]

\* dict[key] = value
Put(d, key, value) == [x \in DOMAIN d \cup {key} |-> IF x = key THEN value ELSE d[x]]

\* a mutant of MapPeriod: an empty period ends the loop
MapPeriodBreak ==
    /\ period_queue # <<>>
    /\ LET p == Head(period_queue)
           df_map == filtered_map(df_x, df_y, year_list(p))
       IN  /\ period_short_names' = Put(period_short_names, period_name(p), upper(p.key))
           /\ all_period_data' =
                 IF df_map.index = <<>> THEN all_period_data
                 ELSE Put(all_period_data, period_name(p), categorized(df_map))
           /\ period_queue' = IF df_map.index = <<>> THEN <<>> ELSE Tail(period_queue)
    /\ UNCHANGED <<df_x, df_y, periods>>
    /\ UNCHANGED <<catVars, inputVars, stageVars, fileVars, reportVars>>

\* one iteration of "for period_key, year_range in periods.items()"
MapPeriod ==
    /\ period_queue # <<>>
    /\ LET p == Head(period_queue)
           df_map == filtered_map(df_x, df_y, year_list(p))
       IN  /\ period_short_names' = Put(period_short_names, period_name(p), upper(p.key))
           /\ all_period_data' =
                 IF df_map.index = <<>> THEN all_period_data
                 ELSE Put(all_period_data, period_name(p), categorized(df_map))
    /\ period_queue' = Tail(period_queue)
    /\ UNCHANGED <<df_x, df_y, periods>>
    /\ UNCHANGED <<catVars, inputVars, stageVars, fileVars, reportVars>>

(***************************************************************************)
(* The evolution file (analysis/signal_maps.py, create_evolution_file) and *)
(* the end of the two map stages (scripts/run_kem_analysis.py,             *)
(* run_kim_analysis.py).  A table of labels is [index, columns, data]; a   *)
(* column name is <<prefix, short name>>, "category_P1" is                 *)
(* <<"category", "P1">>.  An empty cell of a table in memory is NaNCell.   *)
(***************************************************************************)
NaNCell == "(nan)"
NotPresent == "Not Present"
NotValidated == "Not Validated"

\* the keyword labels and the period keys of the model, in sorted order
KeywordLabels == <<"k1", "k2", "k3">>
PeriodKeys == <<"p1", "p2", "p3", "p4">>

\* a set of keyword labels as a sorted index
SortedIndex(S) == SelectSeq(KeywordLabels, LAMBDA k : k \in S)

\* dict.items(): the period names in insertion order (the configurations
\* of the model list the periods in the order of their keys)
ItemNames(d) ==
    LET key_order == SelectSeq(PeriodKeys, LAMBDA key : \E name \in DOMAIN d : name[1] = key)
    IN  [i \in DOMAIN key_order |->
            CHOOSE name \in DOMAIN d : name[1] = key_order[i]]

\* a mutant of all_keywords_index: only the index of the first period
all_keywords_index_first(apd) ==
    IF DOMAIN apd = {} THEN <<>>
    ELSE SortedIndex(Range(apd[ItemNames(apd)[1]].index))

\* the union of the indices of all period maps
all_keywords_index(apd) ==
    SortedIndex(UNION {Range(apd[name].index) : name \in DOMAIN apd})

\* df_evolution.join(category_col): a left join on the index
join_category(apd, name, k) ==
    IF k \in Range(apd[name].index) THEN apd[name].data[k].category ELSE NaNCell

\* DataFrame.fillna("Not Present") on one cell
fill_not_present(v) == IF v = NaNCell THEN NotPresent ELSE v

create_evolution_file(apd, short_names, category_col_prefix) ==
    LET idx == all_keywords_index(apd)
        names == ItemNames(apd)
        col(name) == <<category_col_prefix, short_names[name]>>
    IN  [index |-> idx,
         columns |-> [i \in DOMAIN names |-> col(names[i])],
         data |-> [k \in Range(idx) |->
                      [c \in {col(name) : name \in DOMAIN apd} |->
                          LET name == CHOOSE nm \in DOMAIN apd : col(nm) = c
                          IN  fill_not_present(join_category(apd, name, k))]]]

\* DataFrame.to_csv of a table of labels: an empty cell is written as ""
to_csv(df) ==
    [index |-> df.index, columns |-> df.columns,
     data |-> [k \in Range(df.index) |->
                  [c \in Range(df.columns) |->
                      IF df.data[k][c] = NaNCell THEN "" ELSE df.data[k][c]]]]

\* pd.read_csv(path, index_col=0) of a table of labels: the default
\* missing-value markers are read as empty cells
na_values == {"", "NA", "N/A", "NaN", "nan", "null", "NULL", "None", "n/a", "<NA>", "#N/A"}

read_csv(file) ==
    [index |-> file.index, columns |-> file.columns,
     data |-> [k \in Range(file.index) |->
                  [c \in Range(file.columns) |->
                      IF file.data[k][c] \in na_values THEN NaNCell ELSE file.data[k][c]]]]

\* the locals of a map stage end with its run
NoMapLocals ==
    /\ df_x' = None
    /\ df_y' = None
    /\ period_queue' = <<>>
    /\ all_period_data' = None
    /\ period_short_names' = None

\* run_kem_analysis.main after generate_signal_map_data: the period maps
\* and the evolution file
KemSave ==
    /\ stage = "kem"
    /\ period_queue = <<>>
    /\ kem_data_csv' = all_period_data
    /\ kem_evolution_csv' =
          to_csv(create_evolution_file(all_period_data, period_short_names, "category"))
    /\ stage' = "idle"
    /\ NoMapLocals
    /\ UNCHANGED <<periods, queue, years, doc_counts, tf_df, df_df, dov_df, dod_df>>
    /\ UNCHANGED <<kim_data_csv, kim_evolution_csv, df_merged, val_queue,
                   all_validated_csv, high_impact_csv, log>>
    /\ UNCHANGED <<catVars, inputVars, fileVars>>


(***************************************************************************)
(* SpecMap: generate_signal_map_data on drawn tables and configured        *)
(* periods.  Scores are drawn from -2e-10, 0 and 3e-10.                    *)
(***************************************************************************)
MapKeywords == <<"k1", "k2", "k3">>
MapYears == <<2010, 2011>>
YCells == {-4, 0, 6}

\* the rows of k1 and k2 are drawn cell by cell, the row of k3 is constant
MapTables(cells) ==
    {[index |-> MapKeywords, columns |-> MapYears,
      data |-> ("k1" :> r1) @@ ("k2" :> r2) @@ ("k3" :> [y \in Range(MapYears) |-> c3])] :
        r1 \in [Range(MapYears) -> cells], r2 \in [Range(MapYears) -> cells], c3 \in cells}

PeriodConfigs ==
    {<<[key |-> "p1", year_range |-> <<2010, 2011>>],
       [key |-> "p2", year_range |-> <<2011, 2012>>]>>,
     <<[key |-> "p1", year_range |-> <<2010, 2012>>]>>,
     <<[key |-> "p1", year_range |-> <<2010, 2011>>],
       [key |-> "p2", year_range |-> <<2011, 2012>>],
       [key |-> "p3", year_range |-> <<2010, 2012>>]>>}

InitMap ==
    /\ df_x \in MapTables(0..MaxX)
    /\ df_y \in MapTables(YCells)
    /\ periods \in PeriodConfigs
    /\ period_queue = periods
    /\ all_period_data = <<>>
    /\ period_short_names = <<>>
    /\ IdleInputs
    /\ optimal_w = None
    /\ stage = "kem"
    /\ queue = <<>>
    /\ years = None
    /\ doc_counts = None
    /\ tf_df = None
    /\ df_df = None
    /\ dov_df = None
    /\ dod_df = None
    /\ IdleFiles
    /\ IdleReports
    /\ IdleCat

NextMap ==
    \/ MapPeriod
    \/ KemSave

SpecMap == InitMap /\ [][NextMap]_vars

\* the years first..last of a period name
YearsOfName(name) == name[2]..name[3]

\* the mean raw count of k over the period is > 0
MeanCountPositive(k, name) == \E y \in YearsOfName(name) : df_x.data[k][y] > 0

\* the geometric mean of score + epsilon over the period is > epsilon:
\* every factor is positive and the product exceeds epsilon^n
GrowthAboveEpsilon(k, name) ==
    LET ys == SortedInts(YearsOfName(name))
    IN  /\ \A y \in YearsOfName(name) : df_y.data[k][y] + Epsilon > 0
        /\ ProdSeq([i \in DOMAIN ys |-> df_y.data[k][ys[i]] + Epsilon])
              > Epsilon ^ Len(ys)

\* the names of the periods whose iteration is over
Processed == {period_name(periods[i]) : i \in 1..(Len(periods) - Len(period_queue))}

\* C10: in every period map every row has axis_x > 0, axis_y > 1e-10 and
\* one of the four labels; a keyword is in the period's map if and only if
\* its mean raw count over the period is > 0 and its geometric-mean score
\* (epsilon added) is > 1e-10.
C10_MapRows ==
    stage = "kem" =>
        /\ DOMAIN all_period_data \subseteq Processed
        /\ \A name \in Processed : \A k \in Range(df_x.index) :
              (name \in DOMAIN all_period_data /\ k \in Range(all_period_data[name].index))
                  <=> (MeanCountPositive(k, name) /\ GrowthAboveEpsilon(k, name))
        /\ \A name \in DOMAIN all_period_data :
              \A k \in Range(all_period_data[name].index) :
                  /\ all_period_data[name].data[k].axis_x > 0
                  /\ all_period_data[name].data[k].axis_y > Epsilon
                  /\ all_period_data[name].data[k].category \in Categories

\* a map with two rows of different labels: one keyword was dropped
C10_Witness ==
    /\ stage = "kem"
    /\ \E name \in DOMAIN all_period_data :
        /\ all_period_data[name].index = <<"k1", "k3">>
        /\ MeanCountPositive("k2", name)
        /\ ~GrowthAboveEpsilon("k2", name)
        /\ all_period_data[name].data["k1"].category = Latent
        /\ all_period_data[name].data["k3"].category = Strong

\* the keywords that survive the presence filter in a period
Survivors(name) ==
    {k \in Range(df_x.index) : MeanCountPositive(k, name) /\ GrowthAboveEpsilon(k, name)}

\* the sum of the raw counts and the product of score + epsilon of a
\* keyword over the years of a period: they order the keywords of the
\* period as the mean and the geometric mean do
CountSum(k, name) ==
    LET ys == SortedInts(YearsOfName(name))
    IN  SumSeq([i \in DOMAIN ys |-> df_x.data[k][ys[i]]])

ScoreProduct(k, name) ==
    LET ys == SortedInts(YearsOfName(name))
    IN  ProdSeq([i \in DOMAIN ys |-> df_y.data[k][ys[i]] + Epsilon])

\* a value of a series is at or above the median of the series exactly
\* when more than half of the values are at or below it
AtOrAboveMedianX(k, name) ==
    2 * Cardinality({s \in Survivors(name) : CountSum(s, name) <= CountSum(k, name)})
        > Cardinality(Survivors(name))

AtOrAboveMedianY(k, name) ==
    2 * Cardinality({s \in Survivors(name) : ScoreProduct(s, name) <= ScoreProduct(k, name)})
        > Cardinality(Survivors(name))

\* C25: the category of a keyword in a period's map is the quadrant of its
\* two axes against the medians over the keywords that survive the filter
\* in that period, computed from the years of that period only.
C25_PeriodLocalMedians ==
    stage = "kem" =>
        \A name \in DOMAIN all_period_data :
            \A k \in Range(all_period_data[name].index) :
                all_period_data[name].data[k].category =
                    IF AtOrAboveMedianX(k, name)
                    THEN (IF AtOrAboveMedianY(k, name) THEN Strong ELSE WellKnown)
                    ELSE (IF AtOrAboveMedianY(k, name) THEN Weak ELSE Latent)

\* a period in which k2 is dropped by the filter: with k2 among the values
\* the median of axis_x would be the count of k1, and k1 would not be
\* below it; a second period has all three keywords
C25_Witness ==
    /\ stage = "kem"
    /\ period_queue = <<>>
    /\ \E name \in DOMAIN all_period_data :
          /\ Survivors(name) = {"k1", "k3"}
          /\ CountSum("k2", name) > 0
          /\ CountSum("k1", name) < CountSum("k3", name)
          /\ all_period_data[name].data["k1"].category \in {Weak, Latent}
    /\ \E name \in DOMAIN all_period_data : Survivors(name) = {"k1", "k2", "k3"}

\* the column of a period in the evolution file of the KEM family
KemColumn(key) == <<"category", upper(key)>>

\* the keywords of at least one written period map
InSomeMap == UNION {Range(kem_data_csv[name].index) : name \in DOMAIN kem_data_csv}

\* C11: the evolution file has exactly one row per keyword that is in at
\* least one period's map; for each such keyword and each period with a
\* map the cell is the period's category of the keyword if the keyword is
\* in that map, and "Not Present" otherwise.
C11_EvolutionRows ==
    kem_evolution_csv # None =>
        /\ Range(kem_evolution_csv.index) = InSomeMap
        /\ Len(kem_evolution_csv.index) = Cardinality(InSomeMap)
        /\ \A name \in DOMAIN kem_data_csv :
              /\ KemColumn(name[1]) \in Range(kem_evolution_csv.columns)
              /\ \A k \in InSomeMap :
                    kem_evolution_csv.data[k][KemColumn(name[1])] =
                        IF k \in Range(kem_data_csv[name].index)
                        THEN kem_data_csv[name].data[k].category
                        ELSE NotPresent

\* k1 is only in the map of P2, and P1 and P3 have maps
C11_Witness ==
    /\ kem_evolution_csv # None
    /\ Len(kem_evolution_csv.columns) = 3
    /\ "k1" \in Range(kem_evolution_csv.index)
    /\ kem_evolution_csv.data["k1"][KemColumn("p1")] = NotPresent
    /\ kem_evolution_csv.data["k1"][KemColumn("p2")] \in Categories
    /\ kem_evolution_csv.data["k1"][KemColumn("p3")] = NotPresent

\* C12: the evolution file has one category column for every configured
\* period, also for a period in which no keyword survived the filter.
C12_ColumnPerPeriod ==
    kem_evolution_csv # None =>
        \A i \in DOMAIN periods :
            KemColumn(periods[i].key) \in Range(kem_evolution_csv.columns)

\* the periods of a configuration in which some keyword survives the filter
HasSurvivor(p) ==
    \E k \in Range(df_x.index) :
        MeanCountPositive(k, period_name(p)) /\ GrowthAboveEpsilon(k, period_name(p))

\* the maps of a call whose configuration is ps, period by period
RECURSIVE MapsOf(_)
MapsOf(ps) ==
    IF ps = <<>> THEN <<>>
    ELSE LET rest == MapsOf(Tail(ps))
             m == filtered_map(df_x, df_y, year_list(Head(ps)))
         IN  IF m.index = <<>> THEN rest
             ELSE Put(rest, period_name(Head(ps)), categorized(m))

\* C20: a period in which no keyword survives the filter yields no map and
\* no error, and the maps of the call are those of the call configured
\* without the empty periods.
C20_EmptyPeriodSkipped ==
    (stage = "kem" /\ period_queue = <<>>) =>
        /\ \A i \in DOMAIN periods :
              ~HasSurvivor(periods[i]) => period_name(periods[i]) \notin DOMAIN all_period_data
        /\ all_period_data = MapsOf(SelectSeq(periods, HasSurvivor))
        /\ DOMAIN period_short_names = {period_name(periods[i]) : i \in DOMAIN periods}

\* three periods, the second one empty, maps for the first and the third
C20_Witness ==
    /\ stage = "kem"
    /\ period_queue = <<>>
    /\ Len(periods) = 3
    /\ ~HasSurvivor(periods[2])
    /\ DOMAIN all_period_data = {period_name(periods[1]), period_name(periods[3])}

(***************************************************************************)
(* The validation stage (scripts/run_signal_validation.py).                *)
(***************************************************************************)
\* df_kem.join(df_kim, how='outer'): the union of the two indices, the
\* columns of both tables; a cell of a table that has no such row is empty
join_outer(left, right) ==
    LET idx == SortedIndex(Range(left.index) \cup Range(right.index))
        cell(t, k, c) == IF k \in Range(t.index) THEN t.data[k][c] ELSE NaNCell
    IN  [index |-> idx,
         columns |-> left.columns \o right.columns,
         data |-> [k \in Range(idx) |->
                      [c \in Range(left.columns) \cup Range(right.columns) |->
                          IF c \in Range(left.columns) THEN cell(left, k, c)
                          ELSE cell(right, k, c)]]]

\* df[col] = value when col is not a column yet: a new last column
ensure_column(df, c, value) ==
    IF c \in Range(df.columns) THEN df
    ELSE [index |-> df.index,
          columns |-> Append(df.columns, c),
          data |-> [k \in Range(df.index) |->
                       [x \in Range(df.columns) \cup {c} |->
                           IF x = c THEN value ELSE df.data[k][x]]]]

\* df[kem_col] == df[kim_col] on one row: an empty cell equals nothing
match_condition(kem, kim) == kem # NaNCell /\ kim # NaNCell /\ kem = kim

\* a mutant of not_present_condition: only the KEM cell is looked at
not_present_condition_kem_only(kem, kim) == kem = NotPresent

\* (df[kem_col] == "Not Present") & (df[kim_col] == "Not Present")
not_present_condition(kem, kim) == kem = NotPresent /\ kim = NotPresent

\* a mutant of validated_signal: the default is assigned last
validated_signal_reset_last(kem, kim) ==
    IF not_present_condition(kem, kim) THEN NotPresent ELSE NotValidated

\* the three assignments to validated_col, for one row
validated_signal(kem, kim) ==
    LET default == NotValidated
        matched == IF match_condition(kem, kim) THEN kem ELSE default
    IN  IF not_present_condition(kem, kim) THEN NotPresent ELSE matched

\* one iteration of the loop of _validate_signals
validate_period(df, period) ==
    LET kem_col == <<"category", period>>
        kim_col == <<"kim_category", period>>
        validated_col == <<"validated_signal", period>>
        filled == ensure_column(ensure_column(df, kem_col, NotPresent), kim_col, NotPresent)
        with_col == ensure_column(filled, validated_col, NotValidated)
    IN  [index |-> with_col.index,
         columns |-> with_col.columns,
         data |-> [k \in Range(with_col.index) |->
                      [c \in Range(with_col.columns) |->
                          IF c = validated_col
                          THEN validated_signal(filled.data[k][kem_col], filled.data[k][kim_col])
                          ELSE with_col.data[k][c]]]]

final_columns_order ==
    <<<<"validated_signal", "P1">>, <<"validated_signal", "P2">>, <<"validated_signal", "P3">>,
      <<"category", "P1">>, <<"kim_category", "P1">>, <<"category", "P2">>,
      <<"kim_category", "P2">>, <<"category", "P3">>, <<"kim_category", "P3">>>>

\* rename(columns={'category_P1': 'kem_P1', 'kim_category_P1': 'kim_P1', ...})
renamed(c) ==
    IF c[1] = "category" THEN <<"kem", c[2]>>
    ELSE IF c[1] = "kim_category" THEN <<"kim", c[2]>>
    ELSE c

\* df_validated[final_columns].rename(...)
df_final_of(df) ==
    LET final_columns == SelectSeq(final_columns_order, LAMBDA c : c \in Range(df.columns))
    IN  [index |-> df.index,
         columns |-> [i \in DOMAIN final_columns |-> renamed(final_columns[i])],
         data |-> [k \in Range(df.index) |->
                      [c \in {renamed(final_columns[i]) : i \in DOMAIN final_columns} |->
                          LET src == CHOOSE x \in Range(final_columns) : renamed(x) = c
                          IN  df.data[k][src]]]]

\* the three columns the two filters read
filter_columns ==
    <<<<"validated_signal", "P1">>, <<"validated_signal", "P2">>, <<"validated_signal", "P3">>>>

non_signal_statuses == {NotValidated, NotPresent}
high_impact_statuses == {Weak, Strong}

\* df[mask]: the rows whose label is in the mask, in the order of the index
select_rows(df, mask) ==
    LET kept == SelectSeq(df.index, LAMBDA k : k \in mask)
    IN  [index |-> kept, columns |-> df.columns,
         data |-> [k \in Range(kept) |-> df.data[k]]]

df_all_validated_of(final) ==
    select_rows(final, {k \in Range(final.index) :
        \E i \in DOMAIN filter_columns :
            final.data[k][filter_columns[i]] \notin non_signal_statuses})

df_high_impact_of(all_validated) ==
    select_rows(all_validated, {k \in Range(all_validated.index) :
        \E i \in DOMAIN filter_columns :
            all_validated.data[k][filter_columns[i]] \in high_impact_statuses})

\* [p.upper() for p in config.analysis.periods.keys()]
periods_from_config(ps) == [i \in DOMAIN ps |-> upper(ps[i].key)]

\* run_signal_validation.main up to the call of _validate_signals
ValStart ==
    /\ stage = "idle"
    /\ kem_evolution_csv # None
    /\ kim_evolution_csv # None
    /\ stage' = "val"
    /\ df_merged' = join_outer(read_csv(kem_evolution_csv), read_csv(kim_evolution_csv))
    /\ val_queue' = periods_from_config(periods)
    /\ UNCHANGED <<queue, years, doc_counts, tf_df, df_df, dov_df, dod_df>>
    /\ UNCHANGED <<kem_data_csv, kim_data_csv, kem_evolution_csv, kim_evolution_csv,
                   all_validated_csv, high_impact_csv, log>>
    /\ UNCHANGED <<catVars, inputVars, fileVars, mapVars>>

\* one period of _validate_signals
ValPeriod ==
    /\ stage = "val"
    /\ val_queue # <<>>
    /\ df_merged' = validate_period(df_merged, Head(val_queue))
    /\ val_queue' = Tail(val_queue)
    /\ UNCHANGED <<kem_data_csv, kim_data_csv, kem_evolution_csv, kim_evolution_csv,
                   all_validated_csv, high_impact_csv, log>>
    /\ UNCHANGED <<catVars, inputVars, stageVars, fileVars, mapVars>>

\* run_signal_validation.main after _validate_signals: the two filters
\* and the two reports; a column the filters read and the table does not
\* have raises KeyError, which nothing catches
ValReport ==
    /\ stage = "val"
    /\ val_queue = <<>>
    /\ LET df_final == df_final_of(df_merged)
           df_all_validated == df_all_validated_of(df_final)
           df_high_impact == df_high_impact_of(df_all_validated)
       IN  IF \A i \in DOMAIN filter_columns : filter_columns[i] \in Range(df_final.columns)
           THEN /\ all_validated_csv' = to_csv(df_all_validated)
                /\ high_impact_csv' = to_csv(df_high_impact)
                /\ log' = log
           ELSE /\ log' = log \cup {[stage |-> "val", error |-> "KeyError"]}
                /\ UNCHANGED <<all_validated_csv, high_impact_csv>>
    /\ stage' = "idle"
    /\ df_merged' = None
    /\ UNCHANGED <<queue, years, doc_counts, tf_df, df_df, dov_df, dod_df>>
    /\ UNCHANGED <<val_queue, kem_data_csv, kim_data_csv, kem_evolution_csv, kim_evolution_csv>>
    /\ UNCHANGED <<catVars, inputVars, fileVars, mapVars>>

(***************************************************************************)
(* SpecVal: the validation stage on the evolution files of two map         *)
(* families.  The files are those create_evolution_file writes for drawn   *)
(* categories of two keywords: in a period of a family, no keyword has a   *)
(* map row, or k2 is "Strong Signal" and k1 is absent, "Weak Signal" or    *)
(* "Latent Signal" (a map the quadrant rule can produce).                  *)
(***************************************************************************)
Absent == "(absent)"

CategoryPairs ==
    {[k1 |-> Absent, k2 |-> Absent], [k1 |-> Absent, k2 |-> Strong],
     [k1 |-> Weak, k2 |-> Strong], [k1 |-> Latent, k2 |-> Strong]}

ValPeriodsOf(keys) ==
    [i \in DOMAIN keys |->
        [key |-> keys[i], year_range |-> <<2009 + i, 2010 + i>>]]

ValConfigs ==
    {ValPeriodsOf(<<"p1", "p2">>), ValPeriodsOf(<<"p1", "p2", "p3">>),
     ValPeriodsOf(<<"p1", "p2", "p3", "p4">>)}

\* the drawn categories of a period: with four periods, k1 has a row only
\* in the fourth
PairsOf(ps, key) ==
    IF Len(ps) = 4 /\ key # "p4"
    THEN {pair \in CategoryPairs : pair.k1 = Absent}
    ELSE CategoryPairs

\* the period maps of a family: a period without rows has no map
FamilyMaps(ps, assign) ==
    LET members(key) == SelectSeq(<<"k1", "k2">>, LAMBDA k : assign[key][k] # Absent)
        with_map == {i \in DOMAIN ps : members(ps[i].key) # <<>>}
    IN  [name \in {period_name(ps[i]) : i \in with_map} |->
            [index |-> members(name[1]),
             data |-> [k \in Range(members(name[1])) |->
                          [category |-> assign[name[1]][k]]]]]

\* period_short_names of the call: every configured period
ShortNames(ps) ==
    [name \in {period_name(ps[i]) : i \in DOMAIN ps} |-> upper(name[1])]

InitVal ==
    /\ periods \in ValConfigs
    /\ \E kem \in [{periods[i].key : i \in DOMAIN periods} -> CategoryPairs],
          kim \in [{periods[i].key : i \in DOMAIN periods} -> CategoryPairs] :
          /\ \A i \in DOMAIN periods :
                /\ kem[periods[i].key] \in PairsOf(periods, periods[i].key)
                /\ kim[periods[i].key] \in PairsOf(periods, periods[i].key)
          /\ kem_data_csv = FamilyMaps(periods, kem)
          /\ kim_data_csv = FamilyMaps(periods, kim)
          /\ kem_evolution_csv =
                to_csv(create_evolution_file(kem_data_csv, ShortNames(periods), "category"))
          /\ kim_evolution_csv =
                to_csv(create_evolution_file(kim_data_csv, ShortNames(periods), "kim_category"))
    /\ df_merged = None
    /\ val_queue = <<>>
    /\ all_validated_csv = None
    /\ high_impact_csv = None
    /\ log = {}
    /\ df_x = None
    /\ df_y = None
    /\ period_queue = <<>>
    /\ all_period_data = None
    /\ period_short_names = None
    /\ IdleInputs
    /\ optimal_w = None
    /\ IdleStage
    /\ IdleFiles
    /\ IdleCat

NextVal ==
    \/ ValStart
    \/ ValPeriod
    \/ ValReport

SpecVal == InitVal /\ [][NextVal]_vars

\* the periods whose validated column is in the merged table
ValidatedPeriods ==
    {upper(periods[i].key) : i \in DOMAIN periods} \cap
        {c[2] : c \in {x \in Range(df_merged.columns) : x[1] = "validated_signal"}}

KemCell(k, P) == df_merged.data[k][<<"category", P>>]
KimCell(k, P) == df_merged.data[k][<<"kim_category", P>>]
ValidatedCell(k, P) == df_merged.data[k][<<"validated_signal", P>>]

\* the category of a keyword in a period of a family: "Not Present" when
\* the cell says so and when the family's table has no row for the keyword
CategoryOf(cell) == IF cell = NaNCell THEN NotPresent ELSE cell

\* C13: if the KEM and the KIM category of a keyword in a period are the
\* same one of the four labels, the validated category is that label.
C13_AgreementValidated ==
    stage = "val" =>
        \A P \in ValidatedPeriods : \A k \in Range(df_merged.index) :
            (KemCell(k, P) \in Categories /\ KemCell(k, P) = KimCell(k, P))
                => ValidatedCell(k, P) = KemCell(k, P)

\* both families say "Weak Signal" and the validated category is that
C13_Witness ==
    /\ stage = "val"
    /\ \E P \in ValidatedPeriods : \E k \in Range(df_merged.index) :
          /\ KemCell(k, P) = Weak
          /\ KimCell(k, P) = Weak
          /\ ValidatedCell(k, P) = Weak

\* C14: if the KEM and the KIM category differ, the validated category is
\* "Not Validated", also when exactly one of the two is "Not Present".
C14_DisagreementNotValidated ==
    stage = "val" =>
        \A P \in ValidatedPeriods : \A k \in Range(df_merged.index) :
            CategoryOf(KemCell(k, P)) # CategoryOf(KimCell(k, P))
                => ValidatedCell(k, P) = NotValidated

\* a disagreement of two labels, and the two disagreements with one
\* "Not Present", all "Not Validated"
C14_Witness ==
    /\ stage = "val"
    /\ \E P \in ValidatedPeriods : \E k \in Range(df_merged.index) :
          /\ KemCell(k, P) = Weak
          /\ KimCell(k, P) = Latent
          /\ ValidatedCell(k, P) = NotValidated
    /\ \E P \in ValidatedPeriods : \E k \in Range(df_merged.index) :
          /\ KemCell(k, P) = NotPresent
          /\ KimCell(k, P) \in Categories
          /\ ValidatedCell(k, P) = NotValidated
    /\ \E P \in ValidatedPeriods : \E k \in Range(df_merged.index) :
          /\ KemCell(k, P) \in Categories
          /\ KimCell(k, P) = NotPresent
          /\ ValidatedCell(k, P) = NotValidated

\* C15: if a keyword of the merged table has no category in a period in
\* either family (the cell is "Not Present" or the family's table has no
\* row for the keyword), the validated category is "Not Present".
C15_BothAbsentNotPresent ==
    stage = "val" =>
        \A P \in ValidatedPeriods : \A k \in Range(df_merged.index) :
            (CategoryOf(KemCell(k, P)) = NotPresent /\ CategoryOf(KimCell(k, P)) = NotPresent)
                => ValidatedCell(k, P) = NotPresent

\* C16: the merged table keeps every keyword of either evolution table,
\* and for a keyword of only one family every source-category cell of the
\* other family is the literal "Not Present".
C16_MergeFillsNotPresent ==
    stage = "val" =>
        /\ Range(df_merged.index) =
              Range(kem_evolution_csv.index) \cup Range(kim_evolution_csv.index)
        /\ \A k \in Range(df_merged.index) : \A c \in Range(df_merged.columns) :
              \/ /\ c[1] = "kim_category"
                 /\ k \notin Range(kim_evolution_csv.index)
              \/ /\ c[1] = "category"
                 /\ k \notin Range(kem_evolution_csv.index)
              => df_merged.data[k][c] = NotPresent

\* the keywords with a validated category in the given set in at least one
\* configured period, at the end of _validate_signals
ValidatedIn(statuses) ==
    {k \in Range(df_merged.index) :
        \E i \in DOMAIN periods : ValidatedCell(k, upper(periods[i].key)) \in statuses}

\* C17: for any configured set of periods the all-validated report is
\* written and holds exactly the keywords whose validated category is a
\* label in at least one configured period.
C17_AllValidatedAnyPeriods ==
    [][(stage = "val" /\ val_queue = <<>>) =>
          /\ all_validated_csv' # None
          /\ Range(all_validated_csv'.index) = ValidatedIn(Categories)]_vars

\* C18: every keyword of the high-impact report is in the all-validated
\* report, and a keyword is in the high-impact report exactly when its
\* validated category is "Weak Signal" or "Strong Signal" in at least one
\* period.
C18_HighImpactSubset ==
    [][(stage = "val" /\ val_queue = <<>>) =>
          /\ high_impact_csv' # None
          /\ all_validated_csv' # None
          /\ Range(high_impact_csv'.index) \subseteq Range(all_validated_csv'.index)
          /\ Range(high_impact_csv'.index) = ValidatedIn({Weak, Strong})]_vars

(***************************************************************************)
(* The other stages (scripts/run_w_experiment.py, run_kem_analysis.py,     *)
(* run_kim_analysis.py, run_signal_validation.py) and the whole pipeline.  *)
(***************************************************************************)
\* config.processing.dov_w_value_to_test, in thousandths
dov_w_value_to_test == <<25, 50>>

\* a number where Python may also have None
Num(v) == [none |-> FALSE, v |-> v]

\* the standard deviations the model draws: np.std of the growth rates of a
\* table with several keywords is not computed by the model
StdDevPool == {0, 1, 2}

\* np.std(gmean(dov_df + 1e-10, axis=1)): not a number for a table without
\* rows and when a score + 1e-10 is negative (its logarithm is not a
\* number), 0 when the rows are equal (a single row too), and else the
\* drawn value
np_std(dov, drawn) ==
    IF dov.index = <<>> THEN NaN
    ELSE IF \E k \in Range(dov.index) : \E y \in Range(dov.columns) :
                dov.data[k][y].num < 0
         THEN NaN
    ELSE IF \A k1, k2 \in Range(dov.index) : dov.data[k1] = dov.data[k2] THEN Float(0)
    ELSE Float(drawn)

\* a mutant of find_optimal_w_from: the comparison is >=
RECURSIVE find_optimal_w_from_last(_, _, _, _, _, _)
find_optimal_w_from_last(tf, dc, w_values, drawn, i, best) ==
    IF i > Len(w_values) THEN best
    ELSE LET dov == calculate_dov(tf, dc, w_values[i])
             current_std_dev == np_std(dov, drawn[IF Len(tf.columns) = 1 THEN 1 ELSE i])
         IN  find_optimal_w_from_last(tf, dc, w_values, drawn, i + 1,
                IF ~current_std_dev.nan /\ current_std_dev.v >= best.max_std_dev
                THEN [best_w |-> Num(w_values[i]), max_std_dev |-> current_std_dev.v,
                      best_dov_df |-> dov]
                ELSE best)

\* the loop of find_optimal_w over the candidates from position i on; the
\* scores of a table of one year are the same for every w, and so is their
\* standard deviation
RECURSIVE find_optimal_w_from(_, _, _, _, _, _)
find_optimal_w_from(tf, dc, w_values, drawn, i, best) ==
    IF i > Len(w_values) THEN best
    ELSE LET dov == calculate_dov(tf, dc, w_values[i])
             current_std_dev == np_std(dov, drawn[IF Len(tf.columns) = 1 THEN 1 ELSE i])
         IN  find_optimal_w_from(tf, dc, w_values, drawn, i + 1,
                IF Greater(current_std_dev, best.max_std_dev)
                THEN [best_w |-> Num(w_values[i]), max_std_dev |-> current_std_dev.v,
                      best_dov_df |-> dov]
                ELSE best)

\* find_optimal_w: the pair it returns
find_optimal_w(tf, dc, w_values, drawn) ==
    LET best == find_optimal_w_from(tf, dc, w_values, drawn, 1,
                    [best_w |-> None, max_std_dev |-> -1, best_dov_df |-> None])
    IN  [best_w |-> best.best_w, best_dov_df |-> best.best_dov_df]

\* doc_counts[int(year)] finds every year column of the table
years_found(tf, dc) == Range(tf.columns) \subseteq Range(dc.index)

\* run_w_experiment.main with its inputs found: the experiment, and
\* _update_config_optimal_w when the best w is not the configured one
\* (the configuration file of the pipeline has its optimal_w line)
WRun ==
    /\ stage = "idle"
    /\ tf_and_corpus_found
    /\ years_found(tf_csv, value_counts(df_papers))
    /\ \E drawn \in [DOMAIN dov_w_value_to_test -> StdDevPool] :
          LET best_w == find_optimal_w(tf_csv, value_counts(df_papers),
                                       dov_w_value_to_test, drawn).best_w
          IN  optimal_w' = IF best_w = None THEN None
                           ELSE IF best_w.v # optimal_w THEN best_w.v ELSE optimal_w
    /\ UNCHANGED <<input_files, df_papers, keywords_set>>
    /\ UNCHANGED <<catVars, stageVars, fileVars, mapVars, reportVars>>

\* run_w_experiment.main when the table has a year column without
\* documents in the corpus: doc_counts[int(year)] raises KeyError, which
\* nothing catches
WCrash ==
    /\ stage = "idle"
    /\ tf_and_corpus_found
    /\ ~years_found(tf_csv, value_counts(df_papers))
    /\ log' = logged("w", "KeyError")
    /\ UNCHANGED <<catVars, inputVars, stageVars, fileVars, mapVars, reportFiles>>

\* run_w_experiment.main when the TF table or the corpus is not found
WAbort ==
    /\ stage = "idle"
    /\ ~tf_and_corpus_found
    /\ log' = logged("w", "FileNotFoundError")
    /\ UNCHANGED <<catVars, inputVars, stageVars, fileVars, mapVars, reportFiles>>

\* run_kem_analysis.main, up to the loop of generate_signal_map_data
KemStart ==
    /\ stage = "idle"
    /\ tf_csv # None
    /\ dov_csv # None
    /\ stage' = "kem"
    /\ df_x' = tf_csv
    /\ df_y' = dov_csv
    /\ period_queue' = periods
    /\ all_period_data' = <<>>
    /\ period_short_names' = <<>>
    /\ UNCHANGED <<periods, queue, years, doc_counts, tf_df, df_df, dov_df, dod_df>>
    /\ UNCHANGED <<catVars, inputVars, fileVars, reportVars>>

\* run_kem_analysis.main when the TF table or the DoV table is not found
KemAbort ==
    /\ stage = "idle"
    /\ tf_csv = None \/ dov_csv = None
    /\ log' = logged("kem", "FileNotFoundError")
    /\ UNCHANGED <<catVars, inputVars, stageVars, fileVars, mapVars, reportFiles>>

\* run_kim_analysis.main, up to the loop of generate_signal_map_data
KimStart ==
    /\ stage = "idle"
    /\ df_csv # None
    /\ dod_csv # None
    /\ stage' = "kim"
    /\ df_x' = df_csv
    /\ df_y' = dod_csv
    /\ period_queue' = periods
    /\ all_period_data' = <<>>
    /\ period_short_names' = <<>>
    /\ UNCHANGED <<periods, queue, years, doc_counts, tf_df, df_df, dov_df, dod_df>>
    /\ UNCHANGED <<catVars, inputVars, fileVars, reportVars>>

\* run_kim_analysis.main after generate_signal_map_data: the period maps
\* and the evolution file
KimSave ==
    /\ stage = "kim"
    /\ period_queue = <<>>
    /\ kim_data_csv' = all_period_data
    /\ kim_evolution_csv' =
          to_csv(create_evolution_file(all_period_data, period_short_names, "kim_category"))
    /\ stage' = "idle"
    /\ NoMapLocals
    /\ UNCHANGED <<periods, queue, years, doc_counts, tf_df, df_df, dov_df, dod_df>>
    /\ UNCHANGED <<kem_data_csv, kem_evolution_csv, df_merged, val_queue,
                   all_validated_csv, high_impact_csv, log>>
    /\ UNCHANGED <<catVars, inputVars, fileVars>>

\* run_kim_analysis.main when the DF table or the DoD table is not found
KimAbort ==
    /\ stage = "idle"
    /\ df_csv = None \/ dod_csv = None
    /\ log' = logged("kim", "FileNotFoundError")
    /\ UNCHANGED <<catVars, inputVars, stageVars, fileVars, mapVars, reportFiles>>

\* run_signal_validation.main when an evolution file is not found
ValAbort ==
    /\ stage = "idle"
    /\ kem_evolution_csv = None \/ kim_evolution_csv = None
    /\ log' = logged("val", "FileNotFoundError")
    /\ UNCHANGED <<catVars, inputVars, stageVars, fileVars, mapVars, reportFiles>>

(***************************************************************************)
(* SpecPipe: the stages of the pipeline, run one at a time in any order,   *)
(* on drawn input files.  Two kinds of runs are drawn.  With the corpus    *)
(* and the vocabulary drawn (found or not found), no period is configured: *)
(* the scores of these runs are rationals and no map reads them.  With a   *)
(* period configuration drawn, the corpus and the vocabulary are not found *)
(* and the tables are drawn (found or not found) in the units of the map   *)
(* builder.                                                                *)
(***************************************************************************)
PipeCorpora ==
    {ExampleCorpus,
     <<Paper(2010, text_repeat), Paper(2011, text_missing), Paper(2012, text_missing)>>}
PipeVocabularies == {{kw_a}, {kw_a, kw_network_neural}}

\* a TF table left by an earlier run
StaleTf ==
    {[index |-> <<kw_a, kw_a_b>>, columns |-> <<2010, 2011>>,
      data |-> [k \in {kw_a, kw_a_b} |->
                   [y \in {2010, 2011} |-> IF k = kw_a THEN 1 ELSE 0]]],
     Frame(<<kw_a>>, <<2011, 2012>>, 1)}

\* tables of counts: k2 and k3 once a year, k1 drawn
PipeX == {t \in MapTables(0..MaxX) :
             t.data["k2"] = t.data["k3"] /\ t.data["k3"][2010] = 1}

\* a table of scores: k1 grows from 0 to 3e-10, k2 and k3 stay at 3e-10
PipeY == CHOOSE t \in MapTables(YCells) :
             /\ t.data["k1"][2010] = 0 /\ t.data["k1"][2011] = 6
             /\ t.data["k2"] = t.data["k3"] /\ t.data["k3"][2010] = 6

InitPipe ==
    /\ \/ /\ input_files \in SUBSET {"keywords", "papers"}
          /\ df_papers \in (IF "papers" \in input_files THEN PipeCorpora ELSE {None})
          /\ keywords_set \in
                (IF "keywords" \in input_files THEN PipeVocabularies ELSE {None})
          /\ tf_csv \in {None} \cup StaleTf
          /\ dov_csv = None
          /\ df_csv = None
          /\ dod_csv = None
          /\ periods = <<>>
       \/ /\ input_files = {}
          /\ df_papers = None
          /\ keywords_set = None
          /\ tf_csv \in {None} \cup PipeX
          /\ dov_csv \in {None, PipeY}
          /\ df_csv \in {None} \cup {t \in PipeX : t.data["k1"][2010] = 1}
          /\ dod_csv \in {None, PipeY}
          /\ periods \in PeriodConfigs
    /\ optimal_w = 25
    /\ df_x = None
    /\ df_y = None
    /\ period_queue = <<>>
    /\ all_period_data = None
    /\ period_short_names = None
    /\ IdleStage
    /\ IdleReports
    /\ IdleCat

NextPipe ==
    \/ TfStart
    \/ TfDoc
    \/ TfSave
    \/ TfAbort
    \/ DfStart
    \/ DfDoc
    \/ DfSave
    \/ DodSave
    \/ DfAbort
    \/ DovStart
    \/ DovMismatch
    \/ DovSave
    \/ DovAbort
    \/ WRun
    \/ WCrash
    \/ WAbort
    \/ KemStart
    \/ MapPeriod
    \/ KemSave
    \/ KemAbort
    \/ KimStart
    \/ KimSave
    \/ KimAbort
    \/ ValStart
    \/ ValPeriod
    \/ ValReport
    \/ ValAbort

SpecPipe == InitPipe /\ [][NextPipe]_vars

(***************************************************************************)
(* Claims about missing input files (checked under SpecPipe).              *)
(***************************************************************************)
StageNames == {"tf", "df", "dov", "w", "kem", "kim", "val"}

\* a required input file of the stage is missing
MissingInput(s) ==
    IF s \in {"tf", "df"} THEN "keywords" \notin input_files \/ "papers" \notin input_files
    ELSE IF s \in {"dov", "w"} THEN tf_csv = None \/ "papers" \notin input_files
    ELSE IF s = "kem" THEN tf_csv = None \/ dov_csv = None
    ELSE IF s = "kim" THEN df_csv = None \/ dod_csv = None
    ELSE kem_evolution_csv = None \/ kim_evolution_csv = None

\* the output files of the stage
OutputsOf(s) ==
    IF s = "tf" THEN <<tf_csv>>
    ELSE IF s = "df" THEN <<df_csv, dod_csv>>
    ELSE IF s = "dov" THEN <<dov_csv>>
    ELSE IF s = "w" THEN <<optimal_w>>
    ELSE IF s = "kem" THEN <<kem_data_csv, kem_evolution_csv>>
    ELSE IF s = "kim" THEN <<kim_data_csv, kim_evolution_csv>>
    ELSE <<all_validated_csv, high_impact_csv>>

FileNotFound(s) == [stage |-> s, error |-> "FileNotFoundError"]

\* C19: while a required input file of a stage is missing, no step gets the
\* stage going and no step changes any of its output files; and a stage
\* logs that a file was not found only when one of its input files is
\* missing, and is over when it has logged it.
C19_MissingInputAborts ==
    [][\A s \in StageNames :
          /\ (stage = "idle" /\ MissingInput(s)) =>
                /\ stage' # s
                /\ OutputsOf(s)' = OutputsOf(s)
          /\ (FileNotFound(s) \in log' /\ FileNotFound(s) \notin log) =>
                /\ stage = "idle"
                /\ MissingInput(s)
                /\ stage' = "idle"]_vars

\* the KIM stage and then the validation stage have found a file missing
\* and have written nothing, after the KEM stage has written its files
C19_Witness ==
    /\ stage = "idle"
    /\ kem_evolution_csv # None
    /\ FileNotFound("kim") \in log
    /\ kim_evolution_csv = None
    /\ kim_data_csv = None
    /\ FileNotFound("val") \in log
    /\ all_validated_csv = None
    /\ high_impact_csv = None

(***************************************************************************)
(* SpecFn: one call of a function on drawn arguments.  A call is a record  *)
(* with the name of the function (fn) and its arguments; what it returned  *)
(* is a record with the value.                                             *)
(***************************************************************************)
w_neural == <<"n", "e", "u", "r", "a", "l">>
w_network == <<"n", "e", "t", "w", "o", "r", "k">>
TextWords == {<<"a">>, <<"b">>, w_neural, w_network}
Separators == {<<" ">>, <<"-">>, <<",", " ">>, <<" ", "-", " ">>}

\* texts of two words with a separator between them
TextCalls ==
    {[fn |-> "_standardize_text", words |-> <<w1, w2>>, sep |-> sep,
      text |-> w1 \o sep \o w2] : w1 \in TextWords, w2 \in TextWords, sep \in Separators}

\* documents of up to MaxTokens words, and vocabularies of standardized
\* keywords
DocumentCalls ==
    {[fn |-> "frequencies", text |-> Join(tokens), keywords_set |-> kws] :
        tokens \in UNION {[1..n -> TextWords] : n \in 1..MaxTokens},
        kws \in (SUBSET KeywordPool) \ {{}}}

\* a frequency table of one keyword with the same count in each of n
\* years, the same number of documents in every year, and a w
ScoreCalls ==
    {[fn |-> fn, table |-> Frame(<<"k1">>, YearColumns(n), count),
      doc_counts |-> [index |-> YearColumns(n),
                      data |-> [y \in Range(YearColumns(n)) |-> docs]],
      w_value |-> w] :
        fn \in {"calculate_dov", "calculate_dod"}, n \in 1..MaxColumns,
        count \in 0..MaxCount, docs \in 1..2, w \in WValues}

\* the candidate lists of the calls of find_optimal_w
CandidateLists == {<<25, 50, 75, 100>>, <<100>>, <<100, 50>>}

\* a frequency table of no, one or two keywords over 1, 2 or MaxColumns
\* years, the counts of a keyword the same in each year, one document a
\* year, a candidate list and the standard deviation of each candidate
FindCalls ==
    {[fn |-> "find_optimal_w",
      tf_df |-> [index |-> index, columns |-> YearColumns(n),
                 data |-> [k \in Range(index) |->
                              [y \in Range(YearColumns(n)) |->
                                  IF k = "k1" THEN c1 ELSE c2]]],
      doc_counts |-> [index |-> YearColumns(n),
                      data |-> [y \in Range(YearColumns(n)) |-> 1]],
      w_values |-> w_values, drawn |-> drawn] :
        index \in {<<>>, <<"k1">>, <<"k1", "k2">>}, n \in {1, 2, MaxColumns},
        c1 \in 0..MaxCount, c2 \in 0..MaxCount,
        w_values \in CandidateLists,
        drawn \in UNION {[1..m -> StdDevPool] : m \in 1..4}}

\* a KEM category and a KIM category of one keyword in one period
LabelCalls ==
    {[fn |-> "validated_signal", kem |-> kem, kim |-> kim] :
        kem \in Categories \cup {NotPresent}, kim \in Categories \cup {NotPresent}}

\* features/signal_validation.py: df_merged[kem_col] == "Not Present"
stand_alone_not_present_condition(kem) == kem = NotPresent

\* features/signal_validation.py: the three assignments to validated_col,
\* for one row
stand_alone_validated_signal(kem, kim) ==
    LET default == NotValidated
        matched == IF match_condition(kem, kim) THEN kem ELSE default
    IN  IF stand_alone_not_present_condition(kem) THEN NotPresent ELSE matched

\* the validated category of one row by _validate_signals and by the
\* stand-alone script
ValidatePair ==
    /\ call.fn = "validated_signal"
    /\ returned = None
    /\ returned' = [refactored |-> validated_signal(call.kem, call.kim),
                    stand_alone |-> stand_alone_validated_signal(call.kem, call.kim)]
    /\ UNCHANGED <<row, median_x, median_y, category, call>>
    /\ UNCHANGED <<inputVars, stageVars, fileVars, mapVars, reportVars>>

StandardizeText ==
    /\ call.fn = "_standardize_text"
    /\ returned = None
    /\ returned' = [value |-> _standardize_text(call.text)]
    /\ UNCHANGED <<row, median_x, median_y, category, call>>
    /\ UNCHANGED <<inputVars, stageVars, fileVars, mapVars, reportVars>>

\* the bodies of the document loops of calculate_term_frequencies and
\* calculate_document_frequencies on one document, from tables of zeros
Frequencies ==
    /\ call.fn = "frequencies"
    /\ returned = None
    /\ LET zeros == Frame(SortedSet(call.keywords_set), <<2010>>, 0)
       IN  returned' =
              [tf |-> TfDocument(zeros, call.text, 2010, call.keywords_set),
               df |-> DfDocument(zeros, call.text, 2010, call.keywords_set)]
    /\ UNCHANGED <<row, median_x, median_y, category, call>>
    /\ UNCHANGED <<inputVars, stageVars, fileVars, mapVars, reportVars>>

CalculateScores ==
    /\ call.fn \in {"calculate_dov", "calculate_dod"}
    /\ returned = None
    /\ returned' =
          [value |-> IF call.fn = "calculate_dov"
                     THEN calculate_dov(call.table, call.doc_counts, call.w_value)
                     ELSE calculate_dod(call.table, call.doc_counts, call.w_value)]
    /\ UNCHANGED <<row, median_x, median_y, category, call>>
    /\ UNCHANGED <<inputVars, stageVars, fileVars, mapVars, reportVars>>

\* the characters str.strip() removes from a line of the configuration
LineWhitespace == {" ", "\t", "\n"}

\* line.lstrip()
RECURSIVE lstrip(_)
lstrip(line) ==
    IF line # <<>> /\ Head(line) \in LineWhitespace THEN lstrip(Tail(line)) ELSE line

\* line.strip()
RECURSIVE strip(_)
strip(line) ==
    LET left == lstrip(line)
    IN  IF left # <<>> /\ left[Len(left)] \in LineWhitespace
        THEN strip(SubSeq(left, 1, Len(left) - 1))
        ELSE left

\* text.startswith(prefix)
startswith(text, prefix) ==
    Len(text) >= Len(prefix) /\ SubSeq(text, 1, Len(prefix)) = prefix

key_optimal_w == <<"o", "p", "t", "i", "m", "a", "l", "_", "w", ":">>

\* the digits of a number of thousandths below 1 without trailing zeros, as
\* the f-string writes a float; None is written as its name
format_value(new_w_value) ==
    IF new_w_value = None THEN <<"N", "o", "n", "e">>
    ELSE LET v == new_w_value.v
             d1 == Digits[(v \div 100) + 1]
             d2 == Digits[((v \div 10) % 10) + 1]
             d3 == Digits[(v % 10) + 1]
         IN  <<"0", ".">> \o (IF v % 10 # 0 THEN <<d1, d2, d3>>
                               ELSE IF v % 100 # 0 THEN <<d1, d2>>
                               ELSE <<d1>>)

\* the line that replaces a line of optimal_w
new_line(line, new_w_value) ==
    LET indent == SubSeq(line, 1, Len(line) - Len(lstrip(line)))
    IN  indent \o key_optimal_w \o <<" ">> \o format_value(new_w_value) \o <<"\n">>

\* the loop over the lines: new_lines and updated
RECURSIVE update_lines(_, _, _, _)
update_lines(lines, new_w_value, new_lines, updated) ==
    IF lines = <<>> THEN [new_lines |-> new_lines, updated |-> updated]
    ELSE IF startswith(strip(Head(lines)), key_optimal_w)
         THEN update_lines(Tail(lines), new_w_value,
                           Append(new_lines, new_line(Head(lines), new_w_value)), TRUE)
         ELSE update_lines(Tail(lines), new_w_value, Append(new_lines, Head(lines)), updated)

\* _update_config_optimal_w: the lines of the file afterwards, and whether
\* the file was written
_update_config_optimal_w(new_w_value, lines) ==
    LET result == update_lines(lines, new_w_value, <<>>, FALSE)
    IN  [lines |-> IF result.updated THEN result.new_lines ELSE lines,
         written |-> result.updated]

\* lines of a configuration file
line_section == <<"p", "r", "o", "c", "e", "s", "s", "i", "n", "g", ":", "\n">>
line_plain == <<" ", " ", "o", "p", "t", "i", "m", "a", "l", "_", "w", ":", " ", "0", ".", "0", "2", "5", "\n">>
line_comment == <<" ", " ", "o", "p", "t", "i", "m", "a", "l", "_", "w", ":", " ", "0", ".", "0", "2", "5", " ", "#", " ", "w", "\n">>
line_last == <<"o", "p", "t", "i", "m", "a", "l", "_", "w", ":", " ", "0", ".", "0", "5">>
line_commented_out == <<"#", " ", "o", "p", "t", "i", "m", "a", "l", "_", "w", ":", " ", "0", ".", "1", "\n">>
line_tab == <<"\t", "o", "p", "t", "i", "m", "a", "l", "_", "w", ":", "0", ".", "1", "\n">>
line_other == <<" ", " ", "m", "a", "x", "_", "n", ":", " ", "2", "\n">>
LinePool == {line_section, line_plain, line_comment, line_last, line_commented_out, line_tab, line_other}

\* configuration files of up to three lines (only the last line of a file
\* can be without its newline) and the value to write
ConfigCalls ==
    {[fn |-> "_update_config_optimal_w", new_w_value |-> v, lines |-> lines] :
        v \in {Num(25), Num(50), Num(100), None},
        lines \in {f \in UNION {[1..n -> LinePool] : n \in 1..3} :
                      \A i \in 1..(Len(f) - 1) : f[i][Len(f[i])] = "\n"}}

UpdateConfig ==
    /\ call.fn = "_update_config_optimal_w"
    /\ returned = None
    /\ returned' = _update_config_optimal_w(call.new_w_value, call.lines)
    /\ UNCHANGED <<row, median_x, median_y, category, call>>
    /\ UNCHANGED <<inputVars, stageVars, fileVars, mapVars, reportVars>>

FindOptimalW ==
    /\ call.fn = "find_optimal_w"
    /\ returned = None
    /\ returned' = find_optimal_w(call.tf_df, call.doc_counts, call.w_values, call.drawn)
    /\ UNCHANGED <<row, median_x, median_y, category, call>>
    /\ UNCHANGED <<inputVars, stageVars, fileVars, mapVars, reportVars>>

InitFn ==
    /\ call \in TextCalls \cup DocumentCalls \cup ScoreCalls \cup LabelCalls
                \cup {c \in FindCalls : DOMAIN c.drawn = DOMAIN c.w_values}
                \cup ConfigCalls
    /\ returned = None
    /\ row = None
    /\ median_x = None
    /\ median_y = None
    /\ category = NoCategory
    /\ IdleInputs
    /\ optimal_w = None
    /\ IdleStage
    /\ IdleFiles
    /\ IdleReports
    /\ IdleMap

NextFn ==
    \/ StandardizeText
    \/ Frequencies
    \/ CalculateScores
    \/ ValidatePair
    \/ FindOptimalW
    \/ UpdateConfig

SpecFn == InitFn /\ [][NextFn]_vars

(***************************************************************************)
(* The stages with two outputs when a write fails: DataFrame.to_csv raises *)
(* OSError (the disk is full, the path cannot be written).                 *)
(***************************************************************************)
\* run_df_dod_calculation.main: df_df.to_csv raises, nothing catches it
DfWriteFails ==
    /\ stage = "df"
    /\ queue = <<>>
    /\ stage' = "idle"
    /\ NoLocals
    /\ log' = logged("df", "OSError")
    /\ UNCHANGED <<catVars, inputVars, fileVars, mapVars, reportFiles>>

\* run_df_dod_calculation.main: dod_df.to_csv raises after the DF table was
\* written, nothing catches it
DodWriteFails ==
    /\ stage = "dod"
    /\ stage' = "idle"
    /\ NoLocals
    /\ log' = logged("df", "OSError")
    /\ UNCHANGED <<catVars, inputVars, fileVars, mapVars, reportFiles>>

\* run_signal_validation.main: df_all_validated.to_csv raises inside the
\* try, the except logs it
AllValidatedWriteFails ==
    /\ stage = "val"
    /\ val_queue = <<>>
    /\ \A i \in DOMAIN filter_columns :
          filter_columns[i] \in Range(df_final_of(df_merged).columns)
    /\ log' = logged("val", "Failed to save validation files")
    /\ stage' = "idle"
    /\ df_merged' = None
    /\ UNCHANGED <<queue, years, doc_counts, tf_df, df_df, dov_df, dod_df>>
    /\ UNCHANGED <<val_queue, kem_data_csv, kim_data_csv, kem_evolution_csv,
                   kim_evolution_csv, all_validated_csv, high_impact_csv>>
    /\ UNCHANGED <<catVars, inputVars, fileVars, mapVars>>

\* run_signal_validation.main: df_all_validated.to_csv succeeds and
\* df_high_impact.to_csv raises inside the same try, the except logs it
HighImpactWriteFails ==
    /\ stage = "val"
    /\ val_queue = <<>>
    /\ \A i \in DOMAIN filter_columns :
          filter_columns[i] \in Range(df_final_of(df_merged).columns)
    /\ all_validated_csv' = to_csv(df_all_validated_of(df_final_of(df_merged)))
    /\ log' = logged("val", "Failed to save validation files")
    /\ stage' = "idle"
    /\ df_merged' = None
    /\ UNCHANGED <<queue, years, doc_counts, tf_df, df_df, dov_df, dod_df>>
    /\ UNCHANGED <<val_queue, kem_data_csv, kim_data_csv, kem_evolution_csv,
                   kim_evolution_csv, high_impact_csv>>
    /\ UNCHANGED <<catVars, inputVars, fileVars, mapVars>>

\* the corpus and the vocabulary are there and no table is, or the four
\* score tables are there
InitIO ==
    /\ InitPipe
    /\ \/ input_files = {"keywords", "papers"} /\ tf_csv = None
       \/ tf_csv # None /\ dov_csv # None /\ df_csv # None /\ dod_csv # None

NextIO ==
    \/ DfStart
    \/ DfDoc
    \/ DfSave
    \/ DodSave
    \/ DfWriteFails
    \/ DodWriteFails
    \/ KemStart
    \/ MapPeriod
    \/ KemSave
    \/ KimStart
    \/ KimSave
    \/ ValStart
    \/ ValPeriod
    \/ ValReport
    \/ AllValidatedWriteFails
    \/ HighImpactWriteFails

SpecIO == InitIO /\ [][NextIO]_vars

C22_HyphenSplits ==
    (call.fn = "_standardize_text" /\ returned # None /\ call.sep = <<"-">>) =>
        returned.value = call.words

CountOf(x, s) == Cardinality({i \in DOMAIN s : s[i] = x})

\* b is a permutation of a
SameTokens(a, b) ==
    /\ Len(a) = Len(b)
    /\ \A i \in DOMAIN a : CountOf(a[i], a) = CountOf(a[i], b)

\* the positions of the windows of the document that are a permutation of
\* the words of keyword k
PermutationWindows(text, k) ==
    LET tokens == Split(text)
        n == Len(Split(k))
    IN  {i \in 1..(Len(tokens) - n + 1) : SameTokens(SubSeq(tokens, i, i + n - 1), Split(k))}

\* C24: a window matches a keyword exactly when it is a permutation of the
\* words of the keyword: the TF of a keyword in a document is the number of
\* such windows, and its DF is 1 when there is one, else 0.
C24_WordOrder ==
    (call.fn = "frequencies" /\ returned # None) =>
        \A k \in call.keywords_set :
            /\ returned.tf.data[k][2010] = Cardinality(PermutationWindows(call.text, k))
            /\ returned.df.data[k][2010] =
                  (IF PermutationWindows(call.text, k) = {} THEN 0 ELSE 1)

\* "neural network a": the keyword "network neural" is counted once although
\* the document has its words in the other order
C24_Witness ==
    /\ call.fn = "frequencies"
    /\ returned # None
    /\ call.text = Join(<<w_neural, w_network, <<"a">> >>)
    /\ kw_network_neural \in call.keywords_set
    /\ returned.tf.data[kw_network_neural][2010] = 1
    /\ returned.df.data[kw_network_neural][2010] = 1

\* the score of keyword k1 in the column at position j
ScoreAt(j) == returned.value.data["k1"][call.table.columns[j]]

\* C29 as stated: every score is non-negative.
C29_ScoresNonNegative ==
    (call.fn \in {"calculate_dov", "calculate_dod"} /\ returned # None) =>
        \A j \in DOMAIN call.table.columns : ScoreAt(j).num >= 0 /\ ScoreAt(j).den > 0

\* C29: the score of the column at position j of N is non-negative exactly
\* when its count is 0 or w * (N - j) <= 1, and negative otherwise.
C29_ScoreSign ==
    (call.fn \in {"calculate_dov", "calculate_dod"} /\ returned # None) =>
        \A j \in DOMAIN call.table.columns :
            /\ ScoreAt(j).den > 0
            /\ ScoreAt(j).num >= 0 <=>
                  \/ call.table.data["k1"][call.table.columns[j]] = 0
                  \/ call.w_value * (Len(call.table.columns) - j) <= 1000

\* 13 years and w = 0.1: the score of the first year is negative, that of
\* the last year is positive
C29_Witness ==
    /\ call.fn = "calculate_dov"
    /\ returned # None
    /\ Len(call.table.columns) = 13
    /\ call.w_value = 100
    /\ ScoreAt(1).num < 0
    /\ ScoreAt(13).num > 0

\* C30: the two scripts give the same validated category for every pair of
\* a KEM category and a KIM category.
C30_SameValidatedCategory ==
    (call.fn = "validated_signal" /\ returned # None) =>
        returned.refactored = returned.stand_alone

\* the standard deviation of the candidate at position i of the call
StdDevAt(i) ==
    np_std(calculate_dov(call.tf_df, call.doc_counts, call.w_values[i]),
           call.drawn[IF Len(call.tf_df.columns) = 1 THEN 1 ELSE i])

\* the positions of the candidates whose standard deviation is a number
Numeric == {i \in DOMAIN call.w_values : ~StdDevAt(i).nan}

C28_ReturnsCandidate ==
    (call.fn = "find_optimal_w" /\ returned # None) =>
        /\ returned.best_w # None
        /\ returned.best_w.v \in Range(call.w_values)
        /\ returned.best_dov_df =
              calculate_dov(call.tf_df, call.doc_counts, returned.best_w.v)

\* the text of a line from its first "#" on, without the newline
RECURSIVE CommentOf(_)
CommentOf(line) ==
    IF line = <<>> THEN <<>>
    ELSE IF Head(line) = "#" THEN SelectSeq(line, LAMBDA c : c # "\n")
    ELSE CommentOf(Tail(line))

\* the whitespace a line begins with
RECURSIVE IndentOf(_)
IndentOf(line) ==
    IF line # <<>> /\ Head(line) \in {" ", "\t"}
    THEN <<Head(line)>> \o IndentOf(Tail(line))
    ELSE <<>>

\* after its indentation the line begins with optimal_w:
IsOptimalWLine(line) ==
    LET rest == SubSeq(line, Len(IndentOf(line)) + 1, Len(line))
    IN  Len(rest) >= 10 /\ SubSeq(rest, 1, 10) = key_optimal_w

\* C27: after _update_config_optimal_w the file differs only in the value of
\* optimal_w: the other lines are unchanged and in order, the line of
\* optimal_w keeps its indentation and its comment, and a file without a
\* line of optimal_w is not rewritten.
C27_OnlyValueChanges ==
    (call.fn = "_update_config_optimal_w" /\ returned # None) =>
        IF \A i \in DOMAIN call.lines : ~IsOptimalWLine(call.lines[i])
        THEN ~returned.written /\ returned.lines = call.lines
        ELSE /\ Len(returned.lines) = Len(call.lines)
             /\ \A i \in DOMAIN call.lines :
                   IF IsOptimalWLine(call.lines[i])
                   THEN /\ IndentOf(returned.lines[i]) = IndentOf(call.lines[i])
                        /\ IsOptimalWLine(returned.lines[i])
                        /\ CommentOf(returned.lines[i]) = CommentOf(call.lines[i])
                   ELSE returned.lines[i] = call.lines[i]

\* C26: a stage with two outputs ends with both written or with neither:
\* the DF and DoD stage does not end before the DoD table once the DF table
\* is written, and the validation stage ends with both reports written or
\* both as they were.
C26_AllOrNothing ==
    [][/\ (stage = "df" /\ stage' = "idle") => (df_csv' = df_csv /\ dod_csv' = dod_csv)
       /\ (stage = "dod" /\ stage' = "idle") => dod_csv' = written(dod_df)
       /\ (stage = "val" /\ stage' = "idle") =>
             \/ all_validated_csv' = all_validated_csv /\ high_impact_csv' = high_impact_csv
             \/ /\ all_validated_csv' = to_csv(df_all_validated_of(df_final_of(df_merged)))
                /\ high_impact_csv' =
                      to_csv(df_high_impact_of(df_all_validated_of(df_final_of(df_merged))))]_vars

====
